---------------------------- MODULE Spec2Model ----------------------------
(***************************************************************************)
(* A model of the translation and routing engine of OllamaLink:            *)
(*   - the word subdivision of streamed content                            *)
(*     (core/handlers/base_response_handler.py),                           *)
(*   - the streaming translators (BaseResponseHandler.stream_response,     *)
(*     the older OllamaResponseHandler.stream_response of core/response.py,*)
(*     and the generators that wrap them or stand in for them),            *)
(*   - Router.make_request with provider resolution, the health cache and  *)
(*     the fallback (core/router.py),                                      *)
(*   - the health cache under repeated checks (Router._is_provider_healthy)*)
(*   - the retry loops of the request handlers                             *)
(*     (core/handlers/base_request_handler.py, core/request.py),           *)
(*   - OllamaClient.get_model_name (core/clients/ollama_client.py),        *)
(*   - the chunking of large requests by the request handlers,             *)
(*   - the persistent HTTP client BaseRequestHandler shares between the    *)
(*     requests in flight (core/handlers/base_request_handler.py).         *)
(* Each part has its own specification (SpecWords, SpecStream, SpecRouter, *)
(* SpecHealth, SpecRetry, SpecResolve, SpecChunk, SpecClient); the         *)
(* variables of the other parts stay at their initial values.              *)
(***************************************************************************)
EXTENDS Integers, Sequences, FiniteSets, TLC

VARIABLES
    w_pc,        \* word subdivision: "input" | "done"
    w_in,        \* the chunk text c (a sequence of characters)
    w_out,       \* the fragments emitted for c
    s_gen,       \* which generator produces the stream
    s_pc,        \* "init" | "streaming" | "closed"
    s_out,       \* events yielded to the client, in order
    s_now,       \* time.time()
    s_lastData,  \* last_data_time
    s_lastYield, \* last_yield_time
    s_buffer,    \* buffer of response.py: raw fragments not yet decoded
    s_sent,      \* history: text carried by the well-formed chunks received
    s_lines,     \* history: number of backend lines received
    s_ticks,     \* history: number of clock steps taken
    s_cause,     \* history: how the backend side ended ("" while it has not)
    r_cfg,       \* the configuration the Router was constructed from
    r_health,    \* Router.provider_health
    r_clock,     \* time.time() as seen by the Router
    r_ticks,     \* history: number of clock steps taken
    r_pc,        \* position of the request inside Router.make_request
    r_req,       \* the arguments of make_request
    r_primary,   \* the provider determine_provider_and_model returned ("" if none)
    r_perr,      \* primary_error: {} (None) or {message}
    r_calls,     \* history: the dispatches to backends, in order
    r_answers,   \* history: what each dispatched backend answered
    r_ferr,      \* history: fallback_error: {} or {message}
    r_result,    \* what make_request returned or raised
    r_seen,      \* history: per provider, the last answer of get_available_models' health check
    r_tried,     \* history: the backend the primary attempt got to ("" if none)
    q_h,         \* which request handler runs make_request
    q_max,       \* max_retries
    q_pc,        \* position inside make_request
    q_retry,     \* retry_count
    q_probe,     \* history: outcome of test_connection ("none" before it ran)
    q_posts,     \* history: outcome of every POST attempt, in order
    q_sleeps,    \* history: duration of every asyncio.sleep, in order
    q_result,    \* what make_request returned or raised
    m_pc,        \* model resolution: "input" | "done"
    m_in,        \* the requested name, the alias table and the catalog
    m_out,       \* what get_model_name returned
    c_h,         \* which request handler chunks the request
    c_pc,        \* position inside the chunked processing
    c_msgs,      \* the messages of the request
    c_chunks,    \* what the chunking function returned
    c_i,         \* index of the chunk being processed
    c_context,   \* current_context: the reply texts carried to the next chunk
    c_combined,  \* combined_results of request.py
    c_usages,    \* history: the usage every answered chunk reported
    c_result,    \* what the chunked processing returned
    c_sent,      \* history: the chunk requests given to make_request, in order
    c_got,       \* history: what each of them was answered with
    c_peer,      \* a second request of the same handler in its chunk loop
    k_timeout,   \* read timeout of the handler's persistent client; {} before get_client made it
    k_reqs       \* per request in flight: its arguments, position, retry_count and
                 \* the read timeout its last POST was sent with

VARIABLES
    d_h,         \* the handler whose reduced-context path runs
    d_pc,        \* "off", "input", "sent"
    d_msgs,      \* the messages of the oversized streaming request
    d_sent       \* the messages given to make_request

VARIABLES
    t_posix,     \* the platform is not Windows: pkill ends the ssh processes
    t_process,   \* tunnel_process of core/api.py: 0 for None, or the process
    t_alive,     \* the ssh processes that run
    t_pc         \* each call of start_tunnel: where it is, or how it ended

wordVars   == <<w_pc, w_in, w_out>>
streamVars == <<s_gen, s_pc, s_out, s_now, s_lastData, s_lastYield, s_buffer,
                s_sent, s_lines, s_ticks, s_cause>>
routerVars == <<r_cfg, r_health, r_clock, r_ticks, r_pc, r_req, r_primary,
                r_perr, r_calls, r_answers, r_ferr, r_result, r_seen,
                r_tried>>
retryVars  == <<q_h, q_max, q_pc, q_retry, q_probe, q_posts, q_sleeps, q_result>>
resolveVars == <<m_pc, m_in, m_out>>
chunkVars  == <<c_h, c_pc, c_msgs, c_chunks, c_i, c_context, c_combined, c_usages,
                c_result, c_sent, c_got, c_peer>>
clientVars == <<k_timeout, k_reqs>>
reduceVars == <<d_h, d_pc, d_msgs, d_sent>>
tunnelVars == <<t_posix, t_process, t_alive, t_pc>>
vars       == <<wordVars, streamVars, routerVars, retryVars, resolveVars, chunkVars,
                clientVars, reduceVars, tunnelVars>>

\* what a step of one part leaves alone
notWords   == <<streamVars, routerVars, retryVars, resolveVars, chunkVars, clientVars,
               reduceVars, tunnelVars>>
notStream  == <<wordVars, routerVars, retryVars, resolveVars, chunkVars, clientVars,
               reduceVars, tunnelVars>>
notRouter  == <<wordVars, streamVars, retryVars, resolveVars, chunkVars, clientVars,
               reduceVars, tunnelVars>>
notRetry   == <<wordVars, streamVars, routerVars, resolveVars, chunkVars, clientVars,
               reduceVars, tunnelVars>>
notResolve == <<wordVars, streamVars, routerVars, retryVars, chunkVars, clientVars,
               reduceVars, tunnelVars>>
notChunk   == <<wordVars, streamVars, routerVars, retryVars, resolveVars, clientVars,
               reduceVars, tunnelVars>>
notClient  == <<wordVars, streamVars, routerVars, retryVars, resolveVars, chunkVars,
               reduceVars, tunnelVars>>
notReduce  == <<wordVars, streamVars, routerVars, retryVars, resolveVars, chunkVars,
               clientVars, tunnelVars>>
notTunnel  == <<wordVars, streamVars, routerVars, retryVars, resolveVars, chunkVars,
               clientVars, reduceVars>>

(***************************************************************************)
(* Bounds of the model.                                                    *)
(***************************************************************************)
MaxLen   == 4   \* longest chunk text given to the word subdivision
MaxLines == 2   \* backend lines per stream
MaxTicks == 2   \* clock steps per stream
MaxRouterTicks == 1  \* clock steps of the Router's clock
MaxRetries == 3  \* largest max_retries a request handler is built with
MaxCatalog == 2  \* entries of available_models
MaxInFlight == 2 \* requests in flight on one request handler
MaxMsgs == 3     \* messages of a request
MaxStarts == 3   \* calls of /api/tunnel/start

(***************************************************************************)
(* Text: a string is a sequence of one-character strings.                  *)
(***************************************************************************)
Chars == {"a", "b", " ", "\t"}

\* str.strip() is empty for these characters; \s of the regular expression
IsSpace(ch) == ch \in {" ", "\t"}

RECURSIVE Concat(_)
Concat(ss) == IF ss = <<>> THEN <<>> ELSE Head(ss) \o Concat(Tail(ss))

RECURSIVE StringsUpTo(_)
StringsUpTo(n) ==
    IF n = 0 THEN {<<>>}
    ELSE LET shorter == StringsUpTo(n - 1)
         IN  shorter \cup {Append(s, ch) : s \in shorter, ch \in Chars}

(***************************************************************************)
(* re.findall(r'\S+|\s+', content): the maximal runs of non-whitespace and *)
(* of whitespace characters, left to right.                                *)
(***************************************************************************)
RECURSIVE RunLen(_)
RunLen(s) ==
    IF Len(s) <= 1 THEN Len(s)
    ELSE IF IsSpace(s[2]) = IsSpace(s[1]) THEN 1 + RunLen(Tail(s))
    ELSE 1

RECURSIVE FindAllNoWhitespace(_)
FindAllNoWhitespace(s) ==
    IF s = <<>> THEN <<>>
    ELSE LET n == RunLen(s)
             rest == FindAllNoWhitespace(SubSeq(s, n + 1, Len(s)))
         IN  IF IsSpace(s[1]) THEN rest ELSE <<SubSeq(s, 1, n)>> \o rest

RECURSIVE FindAllRuns(_)
FindAllRuns(s) ==
    IF s = <<>> THEN <<>>
    ELSE LET n == RunLen(s)
         IN  <<SubSeq(s, 1, n)>> \o FindAllRuns(SubSeq(s, n + 1, Len(s)))

\* The content-delta texts stream_response yields for one chunk text:
\* nothing for an empty text, the text itself for a single character,
\* otherwise one fragment per run.
SplitContent(content) ==
    IF content = <<>> THEN <<>>
    ELSE IF Len(content) > 1 THEN FindAllRuns(content)
    ELSE <<content>>

(***************************************************************************)
(* SpecWords: the word subdivision applied to every text up to MaxLen.     *)
(***************************************************************************)
WordsIdle == w_pc = "idle" /\ w_in = <<>> /\ w_out = <<>>

WordsInit ==
    /\ w_pc = "input"
    /\ w_in \in StringsUpTo(MaxLen)
    /\ w_out = <<>>

Subdivide ==
    /\ w_pc = "input"
    /\ w_out' = SplitContent(w_in)
    /\ w_pc' = "done"
    /\ UNCHANGED w_in
    /\ UNCHANGED notWords

(***************************************************************************)
(* The streaming translators.                                              *)
(***************************************************************************)
KeepaliveInterval == 5    \* keepalive_interval
MaxIdleTime       == 60   \* max_idle_time
RawBufferLimit    == 50   \* len(buffer) > 50 in response.py

\* The generator behind Router.make_request's "stream_generator" for a
\* provider: Router._stream_ollama_request for ollama, the client's
\* stream_chat_completion (which runs BaseResponseHandler.stream_response)
\* for openrouter.
RouterStreamGenerator(provider) ==
    IF provider = "ollama" THEN "router_ollama" ELSE "client"

RouterGenerators == {RouterStreamGenerator(p) : p \in {"ollama", "openrouter"}}

\* "legacy" is OllamaResponseHandler.stream_response of core/response.py.
Generators == RouterGenerators \cup {"legacy"}

\* The generators that run a stream_response
Translators == {"client", "legacy"}

Texts == {<<"a">>, <<"a", " ", "b">>}

\* The text carried by the chunk that arrives split over two lines
SplitText == <<"b">>

\* What a backend can put on one line.  "chunk" is a well-formed chunk
\* carrying text (possibly none) and possibly the done signal; "error" a
\* well-formed chunk with an "error" member; "sse_done" the line
\* "data: [DONE]"; "junk" and "junk_long" are undecodable lines; "head" and
\* "tail" are the two halves of one well-formed chunk split across reads.
ChunkLines ==
    {[kind |-> "chunk", text |-> t, done |-> d] :
        t \in Texts \cup {<<>>}, d \in BOOLEAN} \ {[kind |-> "chunk", text |-> <<>>, done |-> FALSE]}

OtherLine(k) == [kind |-> k, text |-> <<>>, done |-> FALSE]

LinesOf(gen) ==
    ChunkLines \cup
    CASE gen = "client" ->
            {OtherLine(k) : k \in {"blank", "error", "sse_done", "junk"}}
      [] gen = "router_ollama" ->
            {OtherLine(k) : k \in {"blank", "error", "junk"}}
      [] gen = "legacy" ->
            {OtherLine(k) : k \in {"blank", "error", "junk", "junk_long", "head", "tail"}}

\* Number of characters of an undecodable line
RawLen(kind) ==
    CASE kind = "junk" -> 10
      [] kind = "junk_long" -> 60
      [] kind = "head" -> 30
      [] kind = "tail" -> 30
      [] OTHER -> 0

\* Events yielded to the client
Ev(kind, text, code, t) == [kind |-> kind, text |-> text, code |-> code, t |-> t]

RoleEv(t)          == Ev("role", <<>>, {}, t)
ContentEv(text, t) == Ev("content", text, {}, t)
KeepaliveEv(t)     == Ev("keepalive", <<>>, {}, t)
FinishEv(t)        == Ev("finish", <<>>, {}, t)
DoneEv(t)          == Ev("done", <<>>, {}, t)
\* an error frame "data: {error: {message, code?}}"
ErrorEv(code, t)   == Ev("error", <<>>, code, t)
\* a dict yielded as it is, without SSE framing (Router._stream_ollama_request)
RawChunkEv(text, t) == Ev("raw_chunk", text, {}, t)
RawErrorEv(code, t) == Ev("raw_error", <<>>, code, t)

Notice == <<"[Connection lost - no data received]">>

ContentEvs(frags, t) == [i \in 1..Len(frags) |-> ContentEv(frags[i], t)]

TerminalKinds == {"finish", "error"}
HasTerminal(out) == \E i \in 1..Len(out) : out[i].kind \in TerminalKinds

EmptyBuffer == [toks |-> <<>>, len |-> 0]

(***************************************************************************)
(* One iteration of "async for line in response.aiter_lines()" of          *)
(* BaseResponseHandler.stream_response, for the line that arrived at time  *)
(* now.  st holds out, lastData, lastYield, buffer, pc, cause.             *)
(***************************************************************************)
Closed(st, out, cause) == [st EXCEPT !.out = out, !.pc = "closed", !.cause = cause]

BaseOnLine(st, line, now) ==
    LET idle_time == now - st.lastData
        st1 == IF line.kind # "blank" THEN [st EXCEPT !.lastData = now] ELSE st
    IN  IF idle_time > MaxIdleTime
        THEN Closed(st1, st1.out \o <<ContentEv(Notice, now), FinishEv(now), DoneEv(now)>>,
                    "idle_timeout")
        ELSE
        LET st2 == IF now - st1.lastYield > KeepaliveInterval
                   THEN [st1 EXCEPT !.out = Append(@, KeepaliveEv(now)), !.lastYield = now]
                   ELSE st1
        IN  CASE line.kind = "blank" -> st2
              [] line.kind = "sse_done" ->
                    \* break, then the "data: [DONE]" after the loop
                    Closed(st2, Append(st2.out, DoneEv(now)), "done_marker")
              [] line.kind = "error" ->
                    Closed(st2, st2.out \o <<ErrorEv({500}, now), DoneEv(now)>>, "error_chunk")
              [] line.kind = "chunk" ->
                    LET st3 == IF line.text # <<>>
                               THEN [st2 EXCEPT
                                       !.out = @ \o ContentEvs(SplitContent(line.text), now),
                                       !.lastYield = now]
                               ELSE st2
                    IN  IF line.done
                        THEN Closed(st3, st3.out \o <<FinishEv(now), DoneEv(now)>>, "done_signal")
                        ELSE st3
              [] OTHER -> st2   \* json.JSONDecodeError: the line is skipped

(***************************************************************************)
(* One iteration of the loop of OllamaResponseHandler.stream_response      *)
(* (core/response.py).                                                     *)
(***************************************************************************)
\* json.loads(buffer) succeeds when the buffer holds exactly the two halves
\* of the split chunk
Decodes(buffer) == buffer.toks = <<"head", "tail">>

LegacyOnLine(st, line, now) ==
    IF line.kind = "blank" THEN st
    ELSE
    LET st1 == IF now - st.lastYield > KeepaliveInterval
               THEN [st EXCEPT !.out = Append(@, KeepaliveEv(now)), !.lastYield = now]
               ELSE st
    IN  CASE line.kind = "chunk" ->
                LET st2 == IF line.text # <<>>
                           THEN [st1 EXCEPT !.out = Append(@, ContentEv(line.text, now)),
                                            !.lastYield = now]
                           ELSE st1
                IN  IF line.done
                    THEN [st2 EXCEPT !.out = Append(@, FinishEv(now))]
                    ELSE st2
          [] line.kind = "error" -> st1   \* no "message", no "done": nothing is yielded
          [] OTHER ->
                \* json.JSONDecodeError: the line goes to the buffer
                LET buf == [toks |-> Append(st1.buffer.toks, line.kind),
                            len  |-> st1.buffer.len + RawLen(line.kind)]
                IN  IF Decodes(buf)
                    THEN [st1 EXCEPT !.buffer = EmptyBuffer,
                                     !.out = Append(@, ContentEv(SplitText, now)),
                                     !.lastYield = now]
                    ELSE IF buf.len > RawBufferLimit
                    THEN [st1 EXCEPT !.buffer = EmptyBuffer,
                                     !.out = Append(@, ContentEv(buf.toks, now)),
                                     !.lastYield = now]
                    ELSE [st1 EXCEPT !.buffer = buf]

\* after the loop: the rest of the buffer goes out as content, then [DONE]
LegacyOnEnd(st, now) ==
    LET out1 == IF st.buffer.toks # <<>>
                THEN Append(st.out, ContentEv(st.buffer.toks, now))
                ELSE st.out
    IN  Closed(st, Append(out1, DoneEv(now)), "eof")

(***************************************************************************)
(* One iteration of the loop of Router._stream_ollama_request: every       *)
(* decodable non-blank line is yielded as the dict it decodes to.          *)
(***************************************************************************)
RouterOllamaOnLine(st, line, now) ==
    CASE line.kind = "chunk" -> [st EXCEPT !.out = Append(@, RawChunkEv(line.text, now))]
      [] line.kind = "error" -> [st EXCEPT !.out = Append(@, RawChunkEv(<<>>, now))]
      [] OTHER -> st

(***************************************************************************)
(* SpecStream: one stream, from the creation of the generator to its end.  *)
(***************************************************************************)
StreamState ==
    [out |-> s_out, lastData |-> s_lastData, lastYield |-> s_lastYield,
     buffer |-> s_buffer, pc |-> s_pc, cause |-> s_cause]

SetStreamState(st) ==
    /\ s_out' = st.out
    /\ s_lastData' = st.lastData
    /\ s_lastYield' = st.lastYield
    /\ s_buffer' = st.buffer
    /\ s_pc' = st.pc
    /\ s_cause' = st.cause

StreamIdle ==
    /\ s_gen = "none" /\ s_pc = "closed" /\ s_out = <<>> /\ s_now = 0
    /\ s_lastData = 0 /\ s_lastYield = 0 /\ s_buffer = EmptyBuffer
    /\ s_sent = <<>> /\ s_lines = 0 /\ s_ticks = 0 /\ s_cause = ""

StreamInit ==
    /\ s_gen \in Generators
    /\ s_pc = "init"
    /\ s_out = <<>>
    /\ s_now = 0 /\ s_lastData = 0 /\ s_lastYield = 0
    /\ s_buffer = EmptyBuffer
    /\ s_sent = <<>> /\ s_lines = 0 /\ s_ticks = 0 /\ s_cause = ""

\* The request handler (client) or the POST (Router._stream_ollama_request)
\* gave an open response: stream_response yields the role chunk first; the
\* Router's own generator yields nothing.
OpenOk ==
    /\ s_pc = "init"
    /\ s_pc' = "streaming"
    /\ s_out' = IF s_gen \in Translators THEN <<RoleEv(s_now)>> ELSE <<>>
    /\ UNCHANGED <<s_gen, s_now, s_lastData, s_lastYield, s_buffer, s_sent,
                   s_lines, s_ticks, s_cause>>
    /\ UNCHANGED notStream

\* handle_chat_request returned {"error": {message, code}}: the client's
\* stream_chat_completion yields it as a frame, then [DONE].
HandlerErrorCodes == {401, 404, 408, 429, 500, 503}

OpenHandlerError(code) ==
    /\ s_pc = "init" /\ s_gen = "client"
    /\ s_pc' = "closed"
    /\ s_out' = <<ErrorEv({code}, s_now), DoneEv(s_now)>>
    /\ s_cause' = "handler_error"
    /\ UNCHANGED <<s_gen, s_now, s_lastData, s_lastYield, s_buffer, s_sent,
                   s_lines, s_ticks>>
    /\ UNCHANGED notStream

\* Router._stream_ollama_request: the backend answered with a status other
\* than 200; the error dict is yielded and the generator returns.
OpenBadStatus(status) ==
    /\ s_pc = "init" /\ s_gen = "router_ollama"
    /\ s_pc' = "closed"
    /\ s_out' = <<RawErrorEv({status}, s_now)>>
    /\ s_cause' = "bad_status"
    /\ UNCHANGED <<s_gen, s_now, s_lastData, s_lastYield, s_buffer, s_sent,
                   s_lines, s_ticks>>
    /\ UNCHANGED notStream

\* Router._stream_ollama_request: the connection could not be made
OpenConnectFailed ==
    /\ s_pc = "init" /\ s_gen = "router_ollama"
    /\ s_pc' = "closed"
    /\ s_out' = <<RawErrorEv({}, s_now)>>
    /\ s_cause' = "connect_failed"
    /\ UNCHANGED <<s_gen, s_now, s_lastData, s_lastYield, s_buffer, s_sent,
                   s_lines, s_ticks>>
    /\ UNCHANGED notStream

\* history: the text of a well-formed chunk counts as received when its
\* line (or the second half of a split chunk, right after the first)
\* arrives before a terminal event was yielded
Received(line) ==
    IF HasTerminal(s_out) THEN <<>>
    ELSE IF line.kind = "chunk" THEN line.text
    ELSE IF line.kind = "tail" /\ s_buffer.toks = <<"head">> THEN SplitText
    ELSE <<>>

OnLine(gen, st, line, now) ==
    CASE gen = "client" -> BaseOnLine(st, line, now)
      [] gen = "legacy" -> LegacyOnLine(st, line, now)
      [] gen = "router_ollama" -> RouterOllamaOnLine(st, line, now)

\* the backend delivers one more line
RecvLine(line) ==
    /\ s_pc = "streaming"
    /\ s_lines < MaxLines
    /\ SetStreamState(OnLine(s_gen, StreamState, line, s_now))
    /\ s_sent' = s_sent \o Received(line)
    /\ s_lines' = s_lines + 1
    /\ UNCHANGED <<s_gen, s_now, s_ticks>>
    /\ UNCHANGED notStream

\* the backend closes the stream
EndOfStream ==
    /\ s_pc = "streaming"
    /\ SetStreamState(
         CASE s_gen = "client" ->
                Closed(StreamState, Append(s_out, DoneEv(s_now)), "eof")
           [] s_gen = "legacy" -> LegacyOnEnd(StreamState, s_now)
           [] s_gen = "router_ollama" -> Closed(StreamState, s_out, "eof"))
    /\ UNCHANGED <<s_gen, s_now, s_sent, s_lines, s_ticks>>
    /\ UNCHANGED notStream

\* reading the backend raises (connection reset, read timeout)
ReadError ==
    /\ s_pc = "streaming"
    /\ SetStreamState(
         CASE s_gen = "client" ->
                Closed(StreamState, s_out \o <<ErrorEv({500}, s_now), DoneEv(s_now)>>,
                       "read_error")
           [] s_gen = "legacy" ->
                Closed(StreamState, s_out \o <<ErrorEv({}, s_now), DoneEv(s_now)>>,
                       "read_error")
           [] s_gen = "router_ollama" ->
                Closed(StreamState, Append(s_out, RawErrorEv({}, s_now)), "read_error"))
    /\ UNCHANGED <<s_gen, s_now, s_sent, s_lines, s_ticks>>
    /\ UNCHANGED notStream

\* time passes while the generator waits for the next line
TickSteps == {KeepaliveInterval, KeepaliveInterval + 1, MaxIdleTime, MaxIdleTime + 1}

Tick(d) ==
    /\ s_pc = "streaming"
    /\ s_ticks < MaxTicks
    /\ s_now' = s_now + d
    /\ s_ticks' = s_ticks + 1
    /\ UNCHANGED <<s_gen, s_pc, s_out, s_lastData, s_lastYield, s_buffer,
                   s_sent, s_lines, s_cause>>
    /\ UNCHANGED notStream

(***************************************************************************)
(* The Router: provider health, provider resolution, make_request.         *)
(***************************************************************************)
HealthTTL        == 30    \* current_time - last_check < 30
DisabledFailures == 999   \* consecutive_failures of a disabled ollama

Providers == {"ollama", "openrouter", "llamacpp"}

\* Requested model names: one that the alias tables may map, one that they
\* do not, and a request without a model (None).
Models == {"gpt-4", "other", "none"}

Priorities ==
    {<<"ollama", "llamacpp", "openrouter">>, <<"openrouter", "ollama">>}

\* r_cfg: which clients Router.__init__ created (the openrouter client only
\* with an API key), whether the ollama client holds models without a
\* connection error, whether the alias tables hold the name "gpt-4", the
\* provider priority, thinking_mode, the value
\* routing_config.get("fallback_enabled", True) yields and the value
\* routing_config.get("enable_fallback", True) that Router.__init__ stores in
\* self.enable_fallback; a routing section sets at most one of the two keys.
Configs ==
    {c \in [ollama : BOOLEAN, ollamaUp : BOOLEAN, openrouter : BOOLEAN,
            llamacpp : BOOLEAN, mapO : BOOLEAN, mapR : BOOLEAN,
            priority : Priorities, thinking : BOOLEAN,
            fallback_enabled : BOOLEAN, enable_fallback : BOOLEAN] :
        /\ c.ollamaUp => c.ollama
        /\ c.fallback_enabled \/ c.enable_fallback }

\* available_models of the openrouter and llamacpp clients is set to [] by
\* BaseClient.__init__ and assigned nowhere else
OtherClientsHaveModels == FALSE

HealthRecord(available, last_check, failures) ==
    [available |-> available, last_check |-> last_check,
     consecutive_failures |-> failures]

InitialHealth(cfg) ==
    [p \in Providers |->
        HealthRecord(CASE p = "ollama" -> cfg.ollama
                       [] p = "openrouter" -> cfg.openrouter
                       [] p = "llamacpp" -> cfg.llamacpp, 0, 0)]

\* _is_provider_healthy(provider) past the cached answer: the client's state
\* is read and the record is written
CheckProvider(cfg, h, p, t) ==
    IF p = "ollama"
    THEN IF ~cfg.ollama
         THEN [ok |-> FALSE, probe |-> FALSE,
               h |-> [h EXCEPT ![p] = HealthRecord(FALSE, t, DisabledFailures)]]
         ELSE [ok |-> cfg.ollamaUp, probe |-> TRUE,
               h |-> [h EXCEPT ![p] = HealthRecord(cfg.ollamaUp, t,
                          IF cfg.ollamaUp THEN 0 ELSE @.consecutive_failures + 1)]]
    ELSE IF p = "openrouter" /\ cfg.openrouter
    THEN [ok |-> TRUE, probe |-> TRUE,
          h |-> [h EXCEPT ![p] = HealthRecord(TRUE, t, 0)]]
    ELSE IF p = "llamacpp" /\ cfg.llamacpp
    THEN [ok |-> OtherClientsHaveModels, probe |-> TRUE,
          h |-> [h EXCEPT ![p] = HealthRecord(OtherClientsHaveModels, t,
                     IF OtherClientsHaveModels THEN 0 ELSE @.consecutive_failures + 1)]]
    ELSE [ok |-> FALSE, probe |-> FALSE, h |-> h]

\* whether the answer comes from the record
Cached(h, p, t) == t - h[p].last_check < HealthTTL

FromRecord(h, p) == [ok |-> h[p].available, probe |-> FALSE, h |-> h]

\* _is_provider_healthy that reads the client on every call
IsProviderHealthyEveryTime(cfg, h, p, t) == CheckProvider(cfg, h, p, t)

\* _is_provider_healthy that takes the openrouter client for present
IsProviderHealthyNoCredential(cfg, h, p, t) ==
    IF Cached(h, p, t) THEN FromRecord(h, p)
    ELSE CheckProvider([cfg EXCEPT !.openrouter = TRUE], h, p, t)

\* _is_provider_healthy that writes only "available" when it reads the client,
\* as its except branches do
IsProviderHealthyStale(cfg, h, p, t) ==
    IF Cached(h, p, t) THEN FromRecord(h, p)
    ELSE LET c == CheckProvider(cfg, h, p, t)
         IN  [c EXCEPT !.h = [h EXCEPT ![p].available = c.ok]]

\* _is_provider_healthy(provider) at time t: the answer, whether the client's
\* state was read for it, and the records after the call
IsProviderHealthy(cfg, h, p, t) ==
    IF Cached(h, p, t) THEN FromRecord(h, p)
    ELSE CheckProvider(cfg, h, p, t)

InMappings(flag, model) == flag /\ model = "gpt-4"

\* what determine_provider_and_model ends in; "at" is the backend it returned
\* or was looking at when it raised
Decided(provider, h) ==
    [kind |-> "ok", provider |-> provider, msg |-> "", h |-> h, at |-> provider]
RaisedAt(msg, h, p) ==
    [kind |-> "raise", provider |-> "", msg |-> msg, h |-> h, at |-> p]
Raised(msg, h) == RaisedAt(msg, h, "")

\* "Fallback to default" at the end of determine_provider_and_model
DefaultProvider(cfg, h, t) ==
    LET o == IsProviderHealthy(cfg, h, "ollama", t)
    IN  IF o.ok THEN Decided("ollama", o.h)
        ELSE LET r == IsProviderHealthy(cfg, o.h, "openrouter", t)
             IN  IF r.ok THEN Decided("openrouter", r.h)
                 ELSE Raised("No healthy providers available", r.h)

\* "Use provider priority order", from position i of the priority list
RECURSIVE PriorityLoop(_, _, _, _, _)
PriorityLoop(cfg, h, t, model, i) ==
    IF i > Len(cfg.priority) THEN DefaultProvider(cfg, h, t)
    ELSE
    LET p == cfg.priority[i]
        c == IsProviderHealthy(cfg, h, p, t)
    IN  IF ~c.ok THEN PriorityLoop(cfg, c.h, t, model, i + 1)
        ELSE CASE p = "ollama" ->
                    \* get_model_name normalizes the name: None has no lower()
                    IF model = "none" THEN RaisedAt("AttributeError", c.h, p)
                    ELSE Decided("ollama", c.h)
               [] p = "llamacpp" /\ cfg.llamacpp ->
                    \* LlamaCppClient.get_model_name takes one argument
                    RaisedAt("TypeError", c.h, p)
               [] p = "openrouter" /\ cfg.openrouter ->
                    \* no catalog entry can match; search_models lowers the name
                    IF model = "none" THEN RaisedAt("AttributeError", c.h, p)
                    ELSE PriorityLoop(cfg, c.h, t, model, i + 1)
               [] OTHER -> PriorityLoop(cfg, c.h, t, model, i + 1)

\* determine_provider_and_model that returns the backend of an alias without
\* asking for its health
DetermineProviderAndModelAliasFirst(cfg, h, t, model) ==
    IF InMappings(cfg.mapO, model) THEN Decided("ollama", h)
    ELSE IF InMappings(cfg.mapR, model) THEN Decided("openrouter", h)
    ELSE PriorityLoop(cfg, h, t, model, 1)

DetermineProviderAndModel(cfg, h, t, model) ==
    LET o == IF InMappings(cfg.mapO, model)
             THEN IsProviderHealthy(cfg, h, "ollama", t)
             ELSE [ok |-> FALSE, h |-> h]
    IN  IF o.ok THEN Decided("ollama", o.h)
        ELSE
        LET r == IF InMappings(cfg.mapR, model)
                 THEN IsProviderHealthy(cfg, o.h, "openrouter", t)
                 ELSE [ok |-> FALSE, h |-> o.h]
        IN  IF r.ok THEN Decided("openrouter", r.h)
            ELSE PriorityLoop(cfg, r.h, t, model, 1)

\* OllamaClient.process_messages reads message.get(...) only when
\* thinking_mode is off: a message that is no dict raises there
ProcessMessagesRaises(cfg, req) == req.badMessages /\ ~cfg.thinking

(***************************************************************************)
(* What a backend answers to a non-streaming chat call, and the result the *)
(* adapter makes of it.                                                    *)
(***************************************************************************)
ClientErrorStatus == {401, 402, 404, 429}

Http(status) == [kind |-> "http", status |-> {status}]
NoResponse(kind) == [kind |-> kind, status |-> {}]

\* 200, a status that is no 200, no connection at all, no answer in time
Answers ==
    {NoResponse(k) : k \in {"unreachable", "timeout"}}
    \cup {Http(st) : st \in ClientErrorStatus \cup {200, 500}}

Ok(answer) == answer = Http(200)

Success == [status |-> "success", code |-> {}, error |-> {}]
Failure(code, message, errorCode) ==
    [status |-> "error", code |-> code,
     error |-> {[message |-> message, code |-> errorCode]}]

\* Router._make_ollama_request: {"status", "code"?, "error": {"message"}}
OllamaResult(answer) ==
    IF Ok(answer) THEN Success
    ELSE IF answer.kind = "http"
    THEN Failure(answer.status, "Ollama returned status", {})
    ELSE Failure({}, "Request failed", {})

\* OpenRouterClient.chat_completion: the formatted response, or the error
\* dict of BaseRequestHandler.make_request / handle_error_response
OpenRouterResult(answer) ==
    IF Ok(answer) THEN Success
    ELSE CASE answer.kind = "unreachable" ->
                Failure({}, "Cannot connect to provider API", {503})
           [] answer.kind = "timeout" -> Failure({}, "Request timeout", {408})
           [] answer = Http(401) -> Failure({}, "Invalid API key", {401})
           [] answer = Http(402) -> Failure({}, "Insufficient credits", {402})
           [] answer = Http(429) -> Failure({}, "Rate limit exceeded", {429})
           [] answer = Http(404) ->
                Failure({}, "Model not available on OpenRouter", {404})
           [] OTHER -> Failure({}, "OpenRouter returned status", answer.status)

AdapterResult(provider, answer) ==
    IF provider = "ollama" THEN OllamaResult(answer) ELSE OpenRouterResult(answer)

(***************************************************************************)
(* Router.make_request.                                                    *)
(***************************************************************************)
Requests == [model : Models, stream : BOOLEAN, badMessages : BOOLEAN]

NoRequest == [model |-> "none", stream |-> FALSE, badMessages |-> FALSE]
NoResult  == [kind |-> "none"]

\* the dict make_request returns
Returned(provider, stream, fallback, result) ==
    [kind |-> "return", provider |-> provider, stream |-> stream,
     fallback |-> fallback, result |-> result,
     \* the "error" member the openrouter branch adds for 401, 402, 403, 429
     error |-> IF ~fallback /\ provider = "openrouter" /\ result.error # {}
                  /\ (CHOOSE e \in result.error : TRUE).code \subseteq {401, 402, 403, 429}
                  /\ (CHOOSE e \in result.error : TRUE).code # {}
               THEN result.error ELSE {}]

\* raise Exception(f"All providers failed. Primary error: {primary_error}")
AllProvidersFailed(perr) ==
    [kind |-> "raise", message |-> <<"All providers failed. Primary error: ">> \o
        (IF perr = {} THEN <<"None">> ELSE <<CHOOSE m \in perr : TRUE>>)]

Call(provider, role, stream) == [provider |-> provider, role |-> role, stream |-> stream]

RouterIdle ==
    /\ r_cfg = [none |-> TRUE] /\ r_health = <<>> /\ r_clock = 0 /\ r_ticks = 0
    /\ r_pc = "off" /\ r_req = NoRequest /\ r_primary = "" /\ r_perr = {}
    /\ r_calls = <<>> /\ r_answers = <<>> /\ r_ferr = {} /\ r_result = NoResult
    /\ r_seen = <<>> /\ r_tried = ""

RouterInit ==
    /\ r_cfg \in Configs
    /\ r_health = InitialHealth(r_cfg)
    /\ r_clock = HealthTTL
    /\ r_ticks = 0
    /\ r_pc = "idle" /\ r_req = NoRequest /\ r_primary = "" /\ r_perr = {}
    /\ r_calls = <<>> /\ r_answers = <<>> /\ r_ferr = {} /\ r_result = NoResult
    /\ r_seen = [p \in Providers |-> {}]
    /\ r_tried = ""

\* make_request is called: determine_provider_and_model, then the branch of
\* the provider up to its backend call.
MakeRequest(req) ==
    /\ r_pc = "idle"
    /\ r_req' = req
    /\ r_answers' = <<>> /\ r_ferr' = {}
    /\ LET d == DetermineProviderAndModel(r_cfg, r_health, r_clock, req.model)
       IN  /\ r_health' = d.h
           /\ r_primary' = d.provider
           /\ r_tried' = d.at
           /\ IF d.kind = "raise"
              THEN /\ r_perr' = {d.msg} /\ r_pc' = "fallback"
                   /\ r_calls' = <<>> /\ r_result' = NoResult
              ELSE IF d.provider = "ollama" /\ ProcessMessagesRaises(r_cfg, req)
              THEN /\ r_perr' = {"AttributeError"} /\ r_pc' = "fallback"
                   /\ r_calls' = <<>> /\ r_result' = NoResult
              ELSE IF d.provider \in {"ollama", "openrouter"}
              THEN /\ r_perr' = {}
                   /\ r_calls' = <<Call(d.provider, "primary", req.stream)>>
                   /\ IF req.stream
                      THEN /\ r_pc' = "done"
                           /\ r_result' = Returned(d.provider, TRUE, FALSE, Success)
                      ELSE /\ r_pc' = "await_primary"
                           /\ r_result' = NoResult
              ELSE \* no branch for llamacpp: the try block ends without a return
                   /\ r_perr' = {} /\ r_pc' = "fallback"
                   /\ r_calls' = <<>> /\ r_result' = NoResult
    /\ UNCHANGED <<r_cfg, r_clock, r_ticks>>
    /\ UNCHANGED <<r_seen, notRouter>>

\* The primary call returned: whatever the adapter made of the answer is
\* returned to the caller; only an exception would have set primary_error.
PrimaryOutcomeFallsBack(provider, answer) ==
    LET result == AdapterResult(provider, answer)
    IN  IF result.error # {}
        THEN [pc |-> "fallback", perr |-> {(CHOOSE e \in result.error : TRUE).message},
              result |-> NoResult]
        ELSE [pc |-> "done", perr |-> {},
              result |-> Returned(provider, FALSE, FALSE, result)]

PrimaryOutcome(provider, answer) ==
    [pc |-> "done", perr |-> {},
     result |-> Returned(provider, FALSE, FALSE, AdapterResult(provider, answer))]

\* the primary backend answers the non-streaming call
PrimaryAnswer(answer) ==
    /\ r_pc = "await_primary"
    /\ r_answers' = Append(r_answers, answer)
    /\ LET o == PrimaryOutcome(r_primary, answer)
       IN  r_pc' = o.pc /\ r_perr' = o.perr /\ r_result' = o.result
    /\ UNCHANGED <<r_cfg, r_health, r_clock, r_ticks, r_req, r_primary, r_calls, r_ferr>>
    /\ UNCHANGED <<r_seen, r_tried, notRouter>>

\* "Fallback logic": the first healthy provider of ["ollama", "openrouter"]
\* takes the request; the answer names it, or the exception raised on the way
RECURSIVE FallbackLoop(_, _, _, _, _)
FallbackLoop(cfg, h, t, req, alternatives) ==
    IF alternatives = <<>> THEN [kind |-> "none", provider |-> "", ferr |-> {}, h |-> h]
    ELSE
    LET p == Head(alternatives)
        c == IsProviderHealthy(cfg, h, p, t)
    IN  IF ~c.ok THEN FallbackLoop(cfg, c.h, t, req, Tail(alternatives))
        ELSE IF p = "ollama"
        THEN IF req.model = "none" \/ ProcessMessagesRaises(cfg, req)
             THEN [kind |-> "raise", provider |-> p, ferr |-> {"AttributeError"}, h |-> c.h]
             ELSE [kind |-> "dispatch", provider |-> p, ferr |-> {}, h |-> c.h]
        ELSE IF cfg.openrouter
        THEN [kind |-> "dispatch", provider |-> p, ferr |-> {}, h |-> c.h]
        ELSE [kind |-> "none", provider |-> "", ferr |-> {}, h |-> c.h]   \* break

AlternativeProviders == <<"ollama", "openrouter">>

Fallback ==
    /\ r_pc = "fallback"
    /\ IF r_cfg.fallback_enabled /\ r_perr # {}
       THEN LET f == FallbackLoop(r_cfg, r_health, r_clock, r_req, AlternativeProviders)
            IN  /\ r_health' = f.h
                /\ r_ferr' = f.ferr
                /\ IF f.kind = "dispatch"
                   THEN /\ r_calls' = Append(r_calls, Call(f.provider, "fallback", r_req.stream))
                        /\ IF r_req.stream
                           THEN /\ r_pc' = "done"
                                /\ r_result' = Returned(f.provider, TRUE, TRUE, Success)
                           ELSE /\ r_pc' = "await_fallback"
                                /\ r_result' = NoResult
                   ELSE /\ r_calls' = r_calls
                        /\ r_pc' = "done"
                        /\ r_result' = AllProvidersFailed(r_perr)
       ELSE /\ r_pc' = "done"
            /\ r_result' = AllProvidersFailed(r_perr)
            /\ UNCHANGED <<r_health, r_ferr, r_calls>>
    /\ UNCHANGED <<r_cfg, r_clock, r_ticks, r_req, r_primary, r_perr, r_answers>>
    /\ UNCHANGED <<r_seen, r_tried, notRouter>>

\* the fallback backend answers the non-streaming call
FallbackAnswer(answer) ==
    /\ r_pc = "await_fallback"
    /\ r_answers' = Append(r_answers, answer)
    /\ r_pc' = "done"
    /\ LET p == r_calls[Len(r_calls)].provider
       IN  r_result' = Returned(p, FALSE, TRUE, AdapterResult(p, answer))
    /\ UNCHANGED <<r_cfg, r_health, r_clock, r_ticks, r_req, r_primary, r_perr,
                   r_calls, r_ferr>>
    /\ UNCHANGED <<r_seen, r_tried, notRouter>>

\* the caller iterates the stream generator it was handed: the backend
\* answers inside the generator, after make_request has returned
StreamAnswer(answer) ==
    /\ r_pc = "done"
    /\ r_result.kind = "return" /\ r_result.stream
    /\ Len(r_answers) < Len(r_calls)
    /\ r_answers' = Append(r_answers, answer)
    /\ UNCHANGED <<r_cfg, r_health, r_clock, r_ticks, r_pc, r_req, r_primary,
                   r_perr, r_calls, r_ferr, r_result>>
    /\ UNCHANGED <<r_seen, r_tried, notRouter>>

\* the next request arrives
NextRequest ==
    /\ r_pc = "done"
    /\ r_pc' = "idle"
    /\ r_req' = NoRequest /\ r_primary' = "" /\ r_perr' = {} /\ r_calls' = <<>>
    /\ r_answers' = <<>> /\ r_ferr' = {} /\ r_result' = NoResult
    /\ r_tried' = ""
    /\ UNCHANGED <<r_cfg, r_health, r_clock, r_ticks>>
    /\ UNCHANGED <<r_seen, notRouter>>

\* chat_completions of api.py: the HTTP response made of what make_request
\* returned or raised; message holds the texts of the error, <<>> if none
ChatCompletions(result) ==
    IF result.kind = "raise"
    THEN \* except Exception as e: status 400, "message": str(e)
         [status |-> 400, code |-> "invalid_request", message |-> result.message]
    ELSE IF result.error # {}
    THEN LET e == CHOOSE x \in result.error : TRUE
         IN  [status |-> IF e.code = {} THEN 500 ELSE CHOOSE c \in e.code : TRUE,
              code |-> "error", message |-> <<e.message>>]
    ELSE IF result.stream
    THEN [status |-> 200, code |-> "stream", message |-> <<>>]
    ELSE IF result.result.error # {}
    THEN LET e == CHOOSE x \in result.result.error : TRUE
         IN  [status |-> IF e.code = {} THEN 500 ELSE CHOOSE c \in e.code : TRUE,
              code |-> "error", message |-> <<e.message>>]
    ELSE [status |-> 200, code |-> "ok", message |-> <<>>]

\* time passes
RouterTick(d) ==
    /\ r_ticks < MaxRouterTicks
    /\ r_clock' = r_clock + d
    /\ r_ticks' = r_ticks + 1
    /\ UNCHANGED <<r_cfg, r_health, r_pc, r_req, r_primary, r_perr, r_calls,
                   r_answers, r_ferr, r_result>>
    /\ UNCHANGED <<r_seen, r_tried, notRouter>>

(***************************************************************************)
(* SpecHealth: the health cache under get_available_models, which asks     *)
(* _is_provider_healthy for each provider, while the ollama client's model *)
(* list changes and time passes.                                           *)
(***************************************************************************)
\* the health checks read which clients exist and what the ollama client
\* holds; the rest of the configuration is held at one value
HealthInit ==
    /\ RouterInit
    /\ r_cfg.priority = <<"ollama", "llamacpp", "openrouter">>
    /\ r_cfg.thinking /\ r_cfg.fallback_enabled
    /\ ~r_cfg.mapO /\ ~r_cfg.mapR

\* one call of _is_provider_healthy as its caller sees it
Observed(t, c, p, fresh, h) ==
    [t |-> t, ok |-> c.ok, probe |-> c.probe, record |-> c.h[p], fresh |-> fresh,
     prior |-> h[p]]

\* r_seen[p] holds the last call for p and the check it falls under: the
\* first call, or the first one HealthTTL or more after the check before
NextSeen(seen, t, c, p, h) ==
    IF seen = {} \/ \E e \in seen : t - e.check.t >= HealthTTL
    THEN {[check |-> Observed(t, c, p, TRUE, h), last |-> Observed(t, c, p, TRUE, h)]}
    ELSE {[check |-> e.check, last |-> Observed(t, c, p, FALSE, h)] : e \in seen}

\* get_available_models: "if await self._is_provider_healthy(p)"
CheckHealth(p) ==
    /\ r_pc = "idle"
    /\ LET c == IsProviderHealthy(r_cfg, r_health, p, r_clock)
       IN  /\ r_health' = c.h
           /\ r_seen' = [r_seen EXCEPT ![p] = NextSeen(@, r_clock, c, p, r_health)]
    /\ UNCHANGED <<r_cfg, r_clock, r_ticks, r_pc, r_req, r_primary, r_perr,
                   r_calls, r_answers, r_ferr, r_result, r_tried>>
    /\ UNCHANGED notRouter

\* OllamaClient.fetch_models(force_refresh=True): the model list and the
\* connection error are set from what the backend answers now
FetchModels(up) ==
    /\ r_pc = "idle"
    /\ r_cfg.ollama
    /\ r_cfg' = [r_cfg EXCEPT !.ollamaUp = up]
    /\ UNCHANGED <<r_health, r_clock, r_ticks, r_pc, r_req, r_primary, r_perr,
                   r_calls, r_answers, r_ferr, r_result, r_seen, r_tried>>
    /\ UNCHANGED notRouter

(***************************************************************************)
(* SpecRetry: one call of make_request of a request handler:               *)
(* BaseRequestHandler.make_request (handlers/base_request_handler.py) and  *)
(* OllamaRequestHandler._make_ollama_request (core/request.py).            *)
(***************************************************************************)
RequestHandlers == {"base", "legacy"}

DefaultMaxRetries == 3   \* max_retries: int = 3
BackoffCap        == 8   \* min(2 ** retry_count, 8)
LegacyPause       == 1   \* await asyncio.sleep(1)

RECURSIVE Pow2(_)
Pow2(n) == IF n = 0 THEN 1 ELSE 2 * Pow2(n - 1)

Min(a, b) == IF a <= b THEN a ELSE b

Backoff(retry_count) == Min(Pow2(retry_count), BackoffCap)

\* statuses request.py returns at once
LegacyReturnedStatus == {400, 404, 422}

\* what a POST attempt can end in
PostOutcomes ==
    {NoResponse(k) : k \in {"unreachable", "timeout"}}
    \cup {Http(st) : st \in {200, 400, 404, 429, 500}}

ErrorDict(message, code) == Failure({}, message, {code})
Raise(message) == [status |-> "raise", code |-> {},
                   error |-> {[message |-> message, code |-> {}]}]

RetryIdle ==
    /\ q_h = "none" /\ q_max = 0 /\ q_pc = "off" /\ q_retry = 0
    /\ q_probe = "none" /\ q_posts = <<>> /\ q_sleeps = <<>> /\ q_result = NoResult

RetryInit ==
    /\ q_h \in RequestHandlers
    /\ q_max \in 0..MaxRetries
    /\ q_pc = "start"
    /\ q_retry = 0
    /\ q_probe = "none"
    /\ q_posts = <<>> /\ q_sleeps = <<>> /\ q_result = NoResult

\* make_request that enters the retry loop whatever the probe found
ProbeOutcomeIgnored(reachable) == [pc |-> "loop", result |-> NoResult]

\* "Test connection first"
ProbeOutcome(reachable) ==
    IF reachable THEN [pc |-> "loop", result |-> NoResult]
    ELSE [pc |-> "done", result |-> ErrorDict("Cannot connect to provider API", 503)]

\* BaseRequestHandler.make_request up to the retry loop
Probe(reachable) ==
    /\ q_pc = "start" /\ q_h = "base"
    /\ q_probe' = IF reachable THEN "ok" ELSE "failed"
    /\ LET o == ProbeOutcome(reachable)
       IN  q_pc' = o.pc /\ q_result' = o.result
    /\ UNCHANGED <<q_h, q_max, q_retry, q_posts, q_sleeps>>
    /\ UNCHANGED notRetry

\* OllamaRequestHandler._make_ollama_request has no probe
EnterLoop ==
    /\ q_pc = "start" /\ q_h = "legacy"
    /\ q_pc' = "loop"
    /\ UNCHANGED <<q_h, q_max, q_retry, q_probe, q_posts, q_sleeps, q_result>>
    /\ UNCHANGED notRetry

\* "while retry_count < self.max_retries" is false
LoopExit ==
    /\ q_pc = "loop" /\ ~(q_retry < q_max)
    /\ q_pc' = "done"
    /\ q_result' = IF q_h = "base" THEN ErrorDict("Max retries exceeded", 500)
                   ELSE Raise("Failed to get response from Ollama")
    /\ UNCHANGED <<q_h, q_max, q_retry, q_probe, q_posts, q_sleeps>>
    /\ UNCHANGED notRetry

\* one iteration of the loop of BaseRequestHandler.make_request:
\* [pc, retry, sleeps, result] after the POST ended in outcome
BaseAttempt(retry, max, sleeps, outcome) ==
    IF outcome.kind = "http"
    THEN [pc |-> "done", retry |-> retry, sleeps |-> sleeps,
          result |-> IF Ok(outcome) THEN Success
                     ELSE Failure({}, "classified", outcome.status)]
    ELSE LET n == retry + 1
         IN  IF n >= max
             THEN [pc |-> "done", retry |-> n, sleeps |-> sleeps,
                   result |-> IF outcome.kind = "timeout"
                              THEN ErrorDict("Request timeout", 408)
                              ELSE ErrorDict("Request failed", 500)]
             ELSE [pc |-> "loop", retry |-> n, sleeps |-> Append(sleeps, Backoff(n)),
                   result |-> NoResult]

\* one iteration of the loop of OllamaRequestHandler._make_ollama_request
LegacyAttempt(retry, max, sleeps, outcome) ==
    IF Ok(outcome)
    THEN [pc |-> "done", retry |-> retry, sleeps |-> sleeps, result |-> Success]
    ELSE IF outcome.kind = "http"
    THEN IF outcome.status \subseteq LegacyReturnedStatus
         THEN [pc |-> "done", retry |-> retry, sleeps |-> sleeps,
               result |-> Failure({}, "Ollama API error", outcome.status)]
         ELSE [pc |-> "loop", retry |-> retry + 1,
               sleeps |-> Append(sleeps, LegacyPause), result |-> NoResult]
    ELSE IF outcome.kind = "unreachable"
    THEN [pc |-> "done", retry |-> retry, sleeps |-> sleeps,
          result |-> ErrorDict("Cannot connect to Ollama", 503)]
    ELSE LET n == retry + 1
         IN  IF n >= max
             THEN [pc |-> "done", retry |-> n, sleeps |-> sleeps,
                   result |-> Raise("TimeoutException")]
             ELSE [pc |-> "loop", retry |-> n,
                   sleeps |-> Append(sleeps, LegacyPause), result |-> NoResult]

\* the POST of one attempt ends
Post(outcome) ==
    /\ q_pc = "loop" /\ q_retry < q_max
    /\ q_posts' = Append(q_posts, outcome)
    /\ LET a == IF q_h = "base" THEN BaseAttempt(q_retry, q_max, q_sleeps, outcome)
                ELSE LegacyAttempt(q_retry, q_max, q_sleeps, outcome)
       IN  /\ q_pc' = a.pc
           /\ q_retry' = a.retry
           /\ q_sleeps' = a.sleeps
           /\ q_result' = a.result
    /\ UNCHANGED <<q_h, q_max, q_probe>>
    /\ UNCHANGED notRetry

(***************************************************************************)
(* SpecResolve: OllamaClient.get_model_name(requested_model, mappings)     *)
(* against the client's available_models.  A model name is a sequence of   *)
(* tokens: letters, and a tag such as ":latest" at the end.                *)
(***************************************************************************)
Names ==
    {<<"a">>, <<"A">>, <<"a", ":latest">>, <<"a", "b">>, <<"b">>}

Llama3 == <<"llama3">>

\* the suffixes _normalize_model_name removes
RemovedSuffixes == {":latest", ":v1", ":v2", ":instruct", ":chat"}

LowerToken(tok) == IF tok = "A" THEN "a" ELSE tok

\* str.lower()
Lower(name) == [i \in 1..Len(name) |-> LowerToken(name[i])]

\* BaseClient._normalize_model_name
NormalizeModelName(name) ==
    LET low == Lower(name)
    IN  IF low # <<>> /\ low[Len(low)] \in RemovedSuffixes
        THEN SubSeq(low, 1, Len(low) - 1)
        ELSE low

\* str.startswith
StartsWith(name, prefix) ==
    /\ Len(prefix) <= Len(name)
    /\ SubSeq(name, 1, Len(prefix)) = prefix

Ids(catalog) == {catalog[i] : i \in 1..Len(catalog)}

\* the first id of the catalog that satisfies Test, as a set; {} if none
FirstId(catalog, Test(_)) ==
    LET hits == {i \in 1..Len(catalog) : Test(catalog[i])}
    IN  IF hits = {} THEN {}
        ELSE {catalog[CHOOSE i \in hits : \A j \in hits : i <= j]}

\* sequences without repetition over S, of length up to n
RECURSIVE DistinctSeqs(_, _)
DistinctSeqs(S, n) ==
    IF n = 0 THEN {<<>>}
    ELSE LET shorter == DistinctSeqs(S, n - 1)
         IN  shorter \cup
             UNION {{Append(q, x) : x \in S \ Ids(q)} :
                    q \in {r \in shorter : Len(r) = n - 1}}

\* mappings: the entry for the requested name and the entry "default", each
\* {} when the table has none, and whether the table holds any entry
ResolveInputs ==
    {x \in [requested : Names,
            target : {{}} \cup {{n} : n \in Names},
            default : {{}, {<<"b">>}},
            nonEmpty : BOOLEAN,
            catalog : DistinctSeqs(Names, MaxCatalog)] :
        (x.target # {} \/ x.default # {}) => x.nonEmpty}

\* get_model_name that tries the fuzzy match of the mapped name before the
\* exact one
GetModelNameFuzzyFirst(requested, target, default, nonEmpty, catalog) ==
    IF catalog = <<>>
    THEN (IF default # {} THEN default ELSE {Llama3})
    ELSE
    LET fuzzyMapped ==
            UNION {FirstId(catalog,
                     LAMBDA id : NormalizeModelName(id) = NormalizeModelName(mapped)) :
                   mapped \in target}
    IN  IF fuzzyMapped # {} THEN fuzzyMapped
        ELSE IF requested \in Ids(catalog) THEN {requested}
        ELSE default

\* the set holds the returned name; {} is None
GetModelName(requested, target, default, nonEmpty, catalog) ==
    IF catalog = <<>>
    THEN \* "No Ollama models available"
         (IF default # {} THEN default ELSE {Llama3})
    ELSE
    LET exactMapped == {mapped \in target : mapped \in Ids(catalog)}
        fuzzyMapped ==
            UNION {FirstId(catalog,
                     LAMBDA id : NormalizeModelName(id) = NormalizeModelName(mapped)) :
                   mapped \in target}
        fuzzy ==
            FirstId(catalog,
                LAMBDA id : \/ NormalizeModelName(id) = NormalizeModelName(requested)
                            \/ StartsWith(NormalizeModelName(id),
                                          NormalizeModelName(requested)))
    IN  IF exactMapped # {} THEN exactMapped
        ELSE IF fuzzyMapped # {} THEN fuzzyMapped
        ELSE IF requested \in Ids(catalog) THEN {requested}
        ELSE IF fuzzy # {} THEN fuzzy
        ELSE IF nonEmpty THEN default
        ELSE {catalog[1]}

ResolveIdle == m_pc = "idle" /\ m_in = <<>> /\ m_out = {}

ResolveInit ==
    /\ m_pc = "input"
    /\ m_in \in ResolveInputs
    /\ m_out = {}

Resolve ==
    /\ m_pc = "input"
    /\ m_out' = GetModelName(m_in.requested, m_in.target, m_in.default,
                              m_in.nonEmpty, m_in.catalog)
    /\ m_pc' = "done"
    /\ UNCHANGED m_in
    /\ UNCHANGED notResolve

(***************************************************************************)
(* SpecChunk: the chunking of a message list and the chunked processing of *)
(* a request: BaseRequestHandler.chunk_messages / process_chunked_request  *)
(* and OllamaRequestHandler._chunk_messages / _process_chunked_request.    *)
(* A message is its position in the request, its role and the number       *)
(* estimate_message_tokens gives for it.                                   *)
(***************************************************************************)
BaseChunkLimit   == 8000   \* max_tokens_per_chunk: int = 8000
LegacyChunkLimit == 2000   \* max_tokens_per_chunk: int = 2000
ChunkOverlap     == 1      \* chunk_overlap: int = 1

TokenCounts == {1000, 3000, 9000}

Message(id, role, tokens) == [id |-> id, role |-> role, tokens |-> tokens]

RECURSIVE MessageLists(_)
MessageLists(n) ==
    IF n = 0 THEN {<<>>}
    ELSE LET shorter == MessageLists(n - 1)
         IN  shorter \cup
             {Append(q, Message(n, r, t)) :
                 q \in {x \in shorter : Len(x) = n - 1},
                 r \in {"system", "user"}, t \in TokenCounts}

RECURSIVE SumTokens(_)
SumTokens(msgs) ==
    IF msgs = <<>> THEN 0 ELSE Head(msgs).tokens + SumTokens(Tail(msgs))

\* BaseRequestHandler.chunk_messages: the loop from message i on, with the
\* chunks closed so far and the current chunk
RECURSIVE BaseChunkLoop(_, _, _, _)
BaseChunkLoop(msgs, i, chunks, current) ==
    IF i > Len(msgs)
    THEN (IF current # <<>> THEN Append(chunks, current) ELSE chunks)
    ELSE IF SumTokens(current) + msgs[i].tokens > BaseChunkLimit /\ current # <<>>
    THEN BaseChunkLoop(msgs, i + 1, Append(chunks, current), <<msgs[i]>>)
    ELSE BaseChunkLoop(msgs, i + 1, chunks, Append(current, msgs[i]))

BaseChunkMessages(msgs) == BaseChunkLoop(msgs, 1, <<>>, <<>>)

SelectRole(msgs, system) ==
    SelectSeq(msgs, LAMBDA m : (m.role = "system") = system)

\* the system message _chunk_messages keeps: the last one, as a set
LastSystem(msgs) ==
    LET sys == SelectRole(msgs, TRUE)
    IN  IF sys = <<>> THEN {} ELSE {sys[Len(sys)]}

SetToSeq(S) == IF S = {} THEN <<>> ELSE <<CHOOSE x \in S : TRUE>>

\* OllamaRequestHandler._chunk_messages: the loop over regular_messages from
\* position i (1-based) on
RECURSIVE LegacyChunkLoop(_, _, _, _, _)
LegacyChunkLoop(regular, sys, i, chunks, current) ==
    IF i > Len(regular)
    THEN (IF current # <<>> /\ (Len(current) > 1 \/ current # SetToSeq(sys))
          THEN Append(chunks, current) ELSE chunks)
    ELSE
    LET msg == regular[i]
    IN  IF SumTokens(current) + msg.tokens > LegacyChunkLimit /\ current # <<>>
        THEN LET closed == IF Len(current) = 1 /\ current = SetToSeq(sys)
                           THEN Append(current, msg) ELSE current
                 first == IF i - 1 - ChunkOverlap > 0 THEN i - ChunkOverlap ELSE 1
                 overlap == SubSeq(regular, first, i - 1)
             IN  LegacyChunkLoop(regular, sys, i + 1, Append(chunks, closed),
                                 SetToSeq(sys) \o overlap \o <<msg>>)
        ELSE LegacyChunkLoop(regular, sys, i + 1, chunks, Append(current, msg))

LegacyChunkMessages(msgs) ==
    IF SumTokens(msgs) <= LegacyChunkLimit THEN <<msgs>>
    ELSE LET sys == LastSystem(msgs)
         IN  LegacyChunkLoop(SelectRole(msgs, FALSE), sys, 1, <<>>, SetToSeq(sys))

ChunkMessages(h, msgs) ==
    IF h = "base" THEN BaseChunkMessages(msgs) ELSE LegacyChunkMessages(msgs)

\* a run of LegacyChunkLimit + 1 messages without content at the head of a
\* conversation, written as one message: estimate_message_tokens gives 0
\* for each of them, so the chunking loops leave the run in the first chunk
\* (a copy of it in an overlap stands for its last message)
EmptyRun == Message(0, "user", 0)

\* the conversations that start with the run; their system messages are
\* within the limit, so that the run does not overflow a chunk
LongLists ==
    {<<EmptyRun>> \o q : q \in {x \in MessageLists(MaxMsgs) :
        \A i \in 1..Len(x) :
            x[i].role = "system" => x[i].tokens <= LegacyChunkLimit}}

\* len(messages)
MessageCount(msgs) ==
    Len(msgs) + (IF msgs # <<>> /\ msgs[1] = EmptyRun THEN LegacyChunkLimit ELSE 0)

\* what a chunk request is answered with: a response reporting a usage and
\* holding a reply text, or an error of make_request with its code
Usages == {[prompt |-> 10, completion |-> 5], [prompt |-> 20, completion |-> 7]}

NoUsage == [prompt |-> 0, completion |-> 0]

ReplyOf(u) == IF u.prompt = 10 THEN "reply one" ELSE "reply two"

\* cannot connect, model not found, any other failure
BackendErrorCodes == {503, 404, 500}

ChunkAnswers ==
    {[ok |-> TRUE, usage |-> u, reply |-> ReplyOf(u), code |-> 200] : u \in Usages}
    \cup {[ok |-> FALSE, usage |-> NoUsage, reply |-> "", code |-> c] :
            c \in BackendErrorCodes}

AddUsage(u, v) ==
    [prompt |-> u.prompt + v.prompt, completion |-> u.completion + v.completion]

\* the usage of the formatted response
Completed(u) ==
    [kind |-> "response", prompt_tokens |-> u.prompt,
     completion_tokens |-> u.completion, total_tokens |-> u.prompt + u.completion]

\* an exception raised with the message
ChunkError(message) ==
    [kind |-> message, prompt_tokens |-> 0, completion_tokens |-> 0, total_tokens |-> 0]

\* the error dict of make_request, returned as it is
ReturnedError(code) ==
    [kind |-> "error", code |-> code, prompt_tokens |-> 0, completion_tokens |-> 0,
     total_tokens |-> 0]

\* prefer_streaming of the handlers
PreferStreaming == TRUE

\* handle_chat_request gives process_chunked_request the requests whose
\* "stream" member is False
ChunkedStream == FALSE

\* the request of chunk i of n as make_request sees it: the replies that go
\* with the chunk's messages and whether the backend is asked to stream
ChunkRequest(h, i, n, context, asked) ==
    [chunk |-> i, context |-> context,
     stream |-> IF h = "base" THEN FALSE
                ELSE IF asked /\ i < n THEN FALSE
                ELSE \* "stream" was popped: request_data.get("stream", prefer_streaming)
                     PreferStreaming]

NoPeer == [pc |-> "off", i |-> 0]

\* the chunks of the second request
PeerChunks == 2

ChunkIdle ==
    /\ c_h = "none" /\ c_pc = "off" /\ c_msgs = <<>> /\ c_chunks = <<>> /\ c_i = 0
    /\ c_context = <<>> /\ c_combined = NoUsage /\ c_usages = <<>>
    /\ c_result = NoResult /\ c_sent = <<>> /\ c_got = <<>> /\ c_peer = NoPeer

ChunkInit ==
    /\ c_h \in RequestHandlers
    /\ c_msgs \in MessageLists(MaxMsgs) \cup LongLists
    /\ c_pc = "input"
    /\ c_chunks = <<>> /\ c_i = 0 /\ c_context = <<>> /\ c_combined = NoUsage
    /\ c_usages = <<>> /\ c_result = NoResult
    /\ c_sent = <<>> /\ c_got = <<>> /\ c_peer = NoPeer

\* the chunking function is applied to the messages
Chunk ==
    /\ c_pc = "input"
    /\ c_chunks' = ChunkMessages(c_h, c_msgs)
    /\ c_pc' = "chunked"
    /\ UNCHANGED <<c_h, c_msgs, c_i, c_context, c_combined, c_usages, c_result,
                   c_sent, c_got, c_peer>>
    /\ UNCHANGED notChunk

\* process_chunked_request: the request goes out as it is, or chunk by chunk
Direct(h, msgs, chunks) ==
    IF h = "base" THEN Len(chunks) <= 1
    ELSE MessageCount(msgs) <= LegacyChunkLimit + 1

StartProcess ==
    /\ c_pc = "chunked"
    /\ IF Direct(c_h, c_msgs, c_chunks)
       THEN c_pc' = "direct" /\ c_i' = 0 /\ c_result' = NoResult
       ELSE IF c_chunks = <<>>
       THEN c_pc' = "done" /\ c_i' = 0
            /\ c_result' = ChunkError("Error in chunked processing flow")
       ELSE c_pc' = "chunks" /\ c_i' = 1 /\ c_result' = NoResult
    /\ UNCHANGED <<c_h, c_msgs, c_chunks, c_context, c_combined, c_usages,
                   c_sent, c_got, c_peer>>
    /\ UNCHANGED notChunk

\* the backend answers the request sent as it is
DirectAnswer(answer) ==
    /\ c_pc = "direct"
    /\ c_pc' = "done"
    /\ c_usages' = IF answer.ok THEN Append(c_usages, answer.usage) ELSE c_usages
    /\ c_result' = IF answer.ok THEN Completed(answer.usage)
                   ELSE ReturnedError(answer.code)
    /\ UNCHANGED <<c_h, c_msgs, c_chunks, c_i, c_context, c_combined,
                   c_sent, c_got, c_peer>>
    /\ UNCHANGED notChunk

\* the loop calls make_request again when it is the one that runs
CallDueWhileWaiting(pc) == pc \in {"chunks", "waiting"}

\* the loop is at "response = await self.make_request(chunk_request)" with
\* no call of its own awaited
CallDue(pc) == pc = "chunks"

\* the loop gives the request of chunk c_i to make_request and awaits it
SendChunk ==
    /\ CallDue(c_pc)
    /\ c_pc' = "waiting"
    /\ c_sent' = Append(c_sent, ChunkRequest(c_h, c_i, Len(c_chunks), c_context,
                                             ChunkedStream))
    /\ UNCHANGED <<c_h, c_msgs, c_chunks, c_i, c_context, c_combined, c_usages,
                   c_result, c_got, c_peer>>
    /\ UNCHANGED notChunk

\* one iteration of the loop of BaseRequestHandler.process_chunked_request:
\* an error is returned as it is, the last response is what is returned
BaseChunkStep(i, n, answer) ==
    IF ~answer.ok THEN [pc |-> "done", result |-> ReturnedError(answer.code)]
    ELSE IF i = n THEN [pc |-> "done", result |-> Completed(answer.usage)]
    ELSE [pc |-> "chunks", result |-> NoResult]

\* one iteration of the loop of OllamaRequestHandler._process_chunked_request
LegacyChunkStep(i, n, answer, context, combined) ==
    IF ~answer.ok
    THEN IF context # <<>> /\ i > 1
         THEN (IF i = n
               THEN [pc |-> "done", combined |-> combined,
                     result |-> ChunkError("Error in chunked processing flow")]
               ELSE [pc |-> "chunks", combined |-> combined, result |-> NoResult])
         ELSE [pc |-> "done", combined |-> combined,
               result |-> ChunkError("Chunk processing error")]
    ELSE IF i = n
    THEN [pc |-> "done", combined |-> combined,
          result |-> Completed(AddUsage(combined, answer.usage))]
    ELSE [pc |-> "chunks", combined |-> AddUsage(combined, answer.usage),
          result |-> NoResult]

\* the backend answers the request of chunk c_i
ChunkAnswer(answer) ==
    /\ c_pc = "waiting"
    /\ c_got' = Append(c_got, answer)
    /\ c_usages' = IF answer.ok THEN Append(c_usages, answer.usage) ELSE c_usages
    /\ IF c_h = "base"
       THEN LET b == BaseChunkStep(c_i, Len(c_chunks), answer)
            IN  /\ c_pc' = b.pc /\ c_result' = b.result
                \* current_context = [] is never assigned again
                /\ UNCHANGED <<c_context, c_combined>>
       ELSE LET l == LegacyChunkStep(c_i, Len(c_chunks), answer, c_context, c_combined)
            IN  /\ c_pc' = l.pc /\ c_result' = l.result
                /\ c_combined' = l.combined
                /\ c_context' = IF answer.ok THEN <<answer.reply>> ELSE c_context
    /\ c_i' = IF c_pc' = "chunks" THEN c_i + 1 ELSE c_i
    /\ UNCHANGED <<c_h, c_msgs, c_chunks, c_sent, c_peer>>
    /\ UNCHANGED notChunk

\* a second request enters the chunk loop of the same handler
PeerStart ==
    /\ c_peer = NoPeer
    /\ c_pc # "off"
    /\ c_peer' = [pc |-> "chunks", i |-> 1]
    /\ UNCHANGED <<c_h, c_pc, c_msgs, c_chunks, c_i, c_context, c_combined, c_usages,
                   c_result, c_sent, c_got>>
    /\ UNCHANGED notChunk

\* its loop gives its next chunk to make_request
PeerSend ==
    /\ CallDue(c_peer.pc)
    /\ c_peer' = [c_peer EXCEPT !.pc = "waiting"]
    /\ UNCHANGED <<c_h, c_pc, c_msgs, c_chunks, c_i, c_context, c_combined, c_usages,
                   c_result, c_sent, c_got>>
    /\ UNCHANGED notChunk

\* the backend answers it; its own variables are local to its call
PeerAnswer(answer) ==
    /\ c_peer.pc = "waiting"
    /\ LET b == BaseChunkStep(c_peer.i, PeerChunks, answer)
       IN  c_peer' = [pc |-> b.pc, i |-> IF b.pc = "chunks" THEN c_peer.i + 1
                                         ELSE c_peer.i]
    /\ UNCHANGED <<c_h, c_pc, c_msgs, c_chunks, c_i, c_context, c_combined, c_usages,
                   c_result, c_sent, c_got>>
    /\ UNCHANGED notChunk

(***************************************************************************)
(* SpecReduce: the reduced-context path for oversized streaming requests,  *)
(* process_large_streaming_request of BaseRequestHandler and               *)
(* _process_large_streaming_request of the legacy OllamaRequestHandler.    *)
(***************************************************************************)

\* min(self.max_streaming_tokens, 12000) with max_streaming_tokens = 32000
MaxSafeTokens == 12000

\* what the base handler sets aside of the budget
NoticeReserve == 200

\* the legacy handler reduces requests estimated over this
LegacyReduceOver == 4000

\* estimate_message_tokens of the notices: 72 or 73 characters, about 154
BaseNoticeTokens == 23

LegacyNoticeTokens == 43

\* the notice message, role system
ContextNote(h) ==
    Message(0, "system", IF h = "base" THEN BaseNoticeTokens ELSE LegacyNoticeTokens)

\* the loop over reversed(messages): the trailing messages taken while they
\* fit the budget, up to the first one that does not
RECURSIVE KeepRecent(_, _)
KeepRecent(msgs, budget) ==
    IF msgs = <<>> THEN <<>>
    ELSE LET m == msgs[Len(msgs)]
         IN  IF m.tokens <= budget
             THEN KeepRecent(SubSeq(msgs, 1, Len(msgs) - 1), budget - m.tokens) \o <<m>>
             ELSE <<>>

\* if len(reduced_messages) < len(messages)
NoticeNever(reduced, msgs) == Len(reduced) > Len(msgs)

NoticeDue(reduced, msgs) == Len(reduced) < Len(msgs)

\* the first system message, if any
FirstSystem(msgs) ==
    LET sys == SelectRole(msgs, TRUE) IN IF sys = <<>> THEN <<>> ELSE <<sys[1]>>

\* BaseRequestHandler.process_large_streaming_request: the messages sent
BaseReduced(msgs) ==
    IF SumTokens(msgs) <= MaxSafeTokens THEN msgs
    ELSE LET sys  == SelectRole(msgs, TRUE)
             kept == KeepRecent(SelectRole(msgs, FALSE),
                                MaxSafeTokens - SumTokens(sys) - NoticeReserve)
         IN  IF NoticeDue(sys \o kept, msgs)
             THEN sys \o <<ContextNote("base")>> \o kept
             ELSE sys \o kept

\* OllamaRequestHandler._process_large_streaming_request: the messages sent
LegacyReduced(msgs) ==
    IF SumTokens(msgs) > LegacyReduceOver
    THEN LET sys  == FirstSystem(msgs)
             kept == KeepRecent(SelectRole(msgs, FALSE),
                                LegacyChunkLimit - SumTokens(sys))
         IN  IF NoticeDue(sys \o kept, msgs)
             THEN sys \o <<ContextNote("legacy")>> \o kept
             ELSE sys \o kept
    ELSE msgs

ReduceIdle == d_h = "none" /\ d_pc = "off" /\ d_msgs = <<>> /\ d_sent = <<>>

ReduceInit ==
    /\ d_h \in RequestHandlers
    /\ d_msgs \in MessageLists(MaxMsgs)
    /\ d_pc = "input"
    /\ d_sent = <<>>

\* the path runs and hands its request to make_request
ProcessLargeStreaming ==
    /\ d_pc = "input"
    /\ d_pc' = "sent"
    /\ d_sent' = IF d_h = "base" THEN BaseReduced(d_msgs) ELSE LegacyReduced(d_msgs)
    /\ UNCHANGED <<d_h, d_msgs>>
    /\ UNCHANGED notReduce

(***************************************************************************)
(* SpecTunnel: the /api/tunnel/start and /api/tunnel/stop handlers of      *)
(* core/api.py with start_localhost_run_tunnel of core/util.py.  The calls *)
(* run on one event loop: a step is the code between two awaits.           *)
(***************************************************************************)

\* the calls of start_tunnel; the process a call spawns bears its number
Starters == 1..MaxStarts

TunnelIdle ==
    /\ t_posix = FALSE /\ t_process = 0 /\ t_alive = {}
    /\ t_pc = <<>>

\* tunnel_process = None at import; no ssh process of the tunnel runs
TunnelInit ==
    /\ t_posix \in BOOLEAN
    /\ t_process = 0
    /\ t_alive = {}
    /\ t_pc = [i \in Starters |-> "idle"]

\* start_tunnel from the test of tunnel_process to the first await of the
\* helper: rejected when a process is recorded; otherwise the helper ends
\* the ssh processes of localhost.run it finds (pkill; on Windows the
\* tasklist output never holds "localhost.run") and spawns its own
StartTunnel(i) ==
    /\ t_pc[i] = "idle"
    /\ IF t_process # 0
       THEN /\ t_pc' = [t_pc EXCEPT ![i] = "tunnel_active"]
            /\ UNCHANGED t_alive
       ELSE /\ t_pc' = [t_pc EXCEPT ![i] = "waiting"]
            /\ t_alive' = (IF t_posix THEN {} ELSE t_alive) \cup {i}
    /\ UNCHANGED <<t_posix, t_process>>
    /\ UNCHANGED notTunnel

\* the helper reads the URL from its process and returns (url, process);
\* start_tunnel records the process
UrlFound(i) ==
    /\ t_pc[i] = "waiting" /\ i \in t_alive
    /\ t_process' = i
    /\ t_pc' = [t_pc EXCEPT ![i] = "running"]
    /\ UNCHANGED <<t_posix, t_alive>>
    /\ UNCHANGED notTunnel

\* readline returns nothing and the process has exited: the helper returns
\* None and start_tunnel answers tunnel_start_failed
ProcessExited(i) ==
    /\ t_pc[i] = "waiting" /\ i \notin t_alive
    /\ t_pc' = [t_pc EXCEPT ![i] = "tunnel_start_failed"]
    /\ UNCHANGED <<t_posix, t_process, t_alive>>
    /\ UNCHANGED notTunnel

\* no URL within the 120 seconds of the helper: it returns None and leaves
\* its process as it is
TimedOut(i) ==
    /\ t_pc[i] = "waiting" /\ i \in t_alive
    /\ t_pc' = [t_pc EXCEPT ![i] = "tunnel_start_failed"]
    /\ UNCHANGED <<t_posix, t_process, t_alive>>
    /\ UNCHANGED notTunnel

\* stop_tunnel, which awaits nothing: the recorded process is terminated and
\* tunnel_process reset; without a recorded process it answers no_tunnel
StopTunnel ==
    /\ t_pc # <<>>
    /\ t_process # 0
    /\ t_alive' = t_alive \ {t_process}
    /\ t_process' = 0
    /\ UNCHANGED <<t_posix, t_pc>>
    /\ UNCHANGED notTunnel

(***************************************************************************)
(* SpecClient: the requests in flight on one BaseRequestHandler.  They     *)
(* share self._client; a step runs one request from one await to the next. *)
(***************************************************************************)
ClientReadTimeout     == 180  \* httpx.Timeout(connect=10.0, read=180.0, ...)
DefaultTimeoutSeconds == 90   \* timeout_seconds: int = 90
LargeStreamTimeout    == 180  \* min(request_data.get("timeout", 180), 180)

InFlight == 1..MaxInFlight

\* the timeout_seconds make_request is called with
TimeoutArgs == {DefaultTimeoutSeconds, LargeStreamTimeout}

\* get_client: the client is made with its read timeout when there is none
GetClient(timeout) == IF timeout = {} THEN {ClientReadTimeout} ELSE timeout

\* one pass of the loop of make_request up to "await client.post": the
\* client's timeout after it, and the timeout the POST is sent with
Attempt(timeout, req) ==
    LET client == GetClient(timeout)
        set    == IF ~req.stream THEN {req.timeout_seconds} ELSE client
    IN  [timeout |-> set,
         req |-> [req EXCEPT !.pc = "posted", !.applied = set]]

ClientIdle == k_timeout = {} /\ k_reqs = <<>>

ClientInit ==
    /\ k_timeout = {}
    /\ k_reqs \in [InFlight ->
                     [stream : BOOLEAN, timeout_seconds : TimeoutArgs,
                      pc : {"start"}, retry : {0}, applied : {{}}]]

\* make_request up to "await client.get(health_url)" of test_connection
StartRequest(i) ==
    /\ k_reqs[i].pc = "start"
    /\ k_timeout' = GetClient(k_timeout)
    /\ k_reqs' = [k_reqs EXCEPT ![i].pc = "probe"]
    /\ UNCHANGED notClient

\* test_connection answers; when it is True the first POST is sent
Probed(i, ok) ==
    /\ k_reqs[i].pc = "probe"
    /\ IF ok
       THEN LET a == Attempt(k_timeout, k_reqs[i])
            IN  k_timeout' = a.timeout /\ k_reqs' = [k_reqs EXCEPT ![i] = a.req]
       ELSE k_reqs' = [k_reqs EXCEPT ![i].pc = "done"] /\ UNCHANGED k_timeout
    /\ UNCHANGED notClient

\* the POST ends: with a response, or with httpx.TimeoutException or another
\* exception, which is counted and followed by the sleep unless it was the
\* last attempt
Posted(i, answered) ==
    /\ k_reqs[i].pc = "posted"
    /\ k_reqs' = [k_reqs EXCEPT ![i] =
                    IF answered THEN [@ EXCEPT !.pc = "done"]
                    ELSE [@ EXCEPT !.retry = @ + 1,
                                   !.pc = IF k_reqs[i].retry + 1 >= DefaultMaxRetries
                                          THEN "done" ELSE "sleep"]]
    /\ UNCHANGED k_timeout
    /\ UNCHANGED notClient

\* asyncio.sleep ends and the loop sends the next POST
Retry(i) ==
    /\ k_reqs[i].pc = "sleep"
    /\ LET a == Attempt(k_timeout, k_reqs[i])
       IN  k_timeout' = a.timeout /\ k_reqs' = [k_reqs EXCEPT ![i] = a.req]
    /\ UNCHANGED notClient

WordsSpecInit ==
    WordsInit /\ StreamIdle /\ RouterIdle /\ RetryIdle /\ ResolveIdle /\ ChunkIdle /\ ClientIdle
    /\ ReduceIdle /\ TunnelIdle

WordsNext == Subdivide

SpecWords == WordsSpecInit /\ [][WordsNext]_vars

StreamSpecInit ==
    StreamInit /\ WordsIdle /\ RouterIdle /\ RetryIdle /\ ResolveIdle /\ ChunkIdle /\ ClientIdle
    /\ ReduceIdle /\ TunnelIdle

StreamNext ==
    \/ OpenOk
    \/ \E code \in HandlerErrorCodes : OpenHandlerError(code)
    \/ \E status \in {404, 500} : OpenBadStatus(status)
    \/ OpenConnectFailed
    \/ \E line \in LinesOf(s_gen) : RecvLine(line)
    \/ EndOfStream
    \/ ReadError
    \/ \E d \in TickSteps : Tick(d)

SpecStream == StreamSpecInit /\ [][StreamNext]_vars

RouterSpecInit ==
    RouterInit /\ WordsIdle /\ StreamIdle /\ RetryIdle /\ ResolveIdle /\ ChunkIdle /\ ClientIdle
    /\ ReduceIdle /\ TunnelIdle

RouterNext ==
    \/ \E req \in Requests : MakeRequest(req)
    \/ \E answer \in Answers : PrimaryAnswer(answer)
    \/ Fallback
    \/ \E answer \in Answers : FallbackAnswer(answer)
    \/ \E answer \in Answers : StreamAnswer(answer)
    \/ NextRequest
    \/ \E d \in {1, HealthTTL} : RouterTick(d)

SpecRouter == RouterSpecInit /\ [][RouterNext]_vars

HealthSpecInit ==
    HealthInit /\ WordsIdle /\ StreamIdle /\ RetryIdle /\ ResolveIdle /\ ChunkIdle /\ ClientIdle
    /\ ReduceIdle /\ TunnelIdle

HealthNext ==
    \/ \E p \in Providers : CheckHealth(p)
    \/ \E up \in BOOLEAN : FetchModels(up)
    \/ \E d \in {1, HealthTTL} : RouterTick(d)

SpecHealth == HealthSpecInit /\ [][HealthNext]_vars

RetrySpecInit ==
    RetryInit /\ WordsIdle /\ StreamIdle /\ RouterIdle /\ ResolveIdle /\ ChunkIdle /\ ClientIdle
    /\ ReduceIdle /\ TunnelIdle

RetryNext ==
    \/ \E reachable \in BOOLEAN : Probe(reachable)
    \/ EnterLoop
    \/ LoopExit
    \/ \E outcome \in PostOutcomes : Post(outcome)

SpecRetry == RetrySpecInit /\ [][RetryNext]_vars

ResolveSpecInit ==
    ResolveInit /\ WordsIdle /\ StreamIdle /\ RouterIdle /\ RetryIdle /\ ChunkIdle /\ ClientIdle
    /\ ReduceIdle /\ TunnelIdle

ResolveNext == Resolve

SpecResolve == ResolveSpecInit /\ [][ResolveNext]_vars

ChunkSpecInit ==
    ChunkInit /\ WordsIdle /\ StreamIdle /\ RouterIdle /\ RetryIdle /\ ResolveIdle
    /\ ClientIdle
    /\ ReduceIdle /\ TunnelIdle

ChunkNext ==
    \/ Chunk
    \/ StartProcess
    \/ \E answer \in ChunkAnswers : DirectAnswer(answer)
    \/ SendChunk
    \/ \E answer \in ChunkAnswers : ChunkAnswer(answer)

SpecChunk == ChunkSpecInit /\ [][ChunkNext]_vars

\* two requests in the chunk loop of one handler; the conversation of the
\* first one is made of user messages of one size
CallsSpecInit ==
    /\ ChunkSpecInit
    /\ \A i \in 1..Len(c_msgs) :
          c_msgs[i] = EmptyRun \/ (c_msgs[i].role = "user" /\ c_msgs[i].tokens = 9000)

CallsNext ==
    \/ ChunkNext
    \/ PeerStart
    \/ PeerSend
    \/ \E answer \in ChunkAnswers : PeerAnswer(answer)

SpecCalls == CallsSpecInit /\ [][CallsNext]_vars

ReduceSpecInit ==
    ReduceInit /\ WordsIdle /\ StreamIdle /\ RouterIdle /\ RetryIdle /\ ResolveIdle
    /\ ChunkIdle /\ ClientIdle /\ TunnelIdle

ReduceNext == ProcessLargeStreaming

SpecReduce == ReduceSpecInit /\ [][ReduceNext]_vars

TunnelSpecInit ==
    TunnelInit /\ WordsIdle /\ StreamIdle /\ RouterIdle /\ RetryIdle /\ ResolveIdle
    /\ ChunkIdle /\ ClientIdle /\ ReduceIdle

TunnelNext ==
    \/ \E i \in Starters : StartTunnel(i)
    \/ \E i \in Starters : UrlFound(i)
    \/ \E i \in Starters : ProcessExited(i)
    \/ \E i \in Starters : TimedOut(i)
    \/ StopTunnel

SpecTunnel == TunnelSpecInit /\ [][TunnelNext]_vars

ClientSpecInit ==
    ClientInit /\ WordsIdle /\ StreamIdle /\ RouterIdle /\ RetryIdle /\ ResolveIdle
    /\ ChunkIdle
    /\ ReduceIdle /\ TunnelIdle

ClientNext ==
    \/ \E i \in InFlight : StartRequest(i)
    \/ \E i \in InFlight, ok \in BOOLEAN : Probed(i, ok)
    \/ \E i \in InFlight, answered \in BOOLEAN : Posted(i, answered)
    \/ \E i \in InFlight : Retry(i)

SpecClient == ClientSpecInit /\ [][ClientNext]_vars

\* the parts side by side
Init ==
    WordsInit /\ StreamInit /\ RouterInit /\ RetryInit /\ ResolveInit /\ ChunkInit
    /\ ClientInit /\ ReduceInit /\ TunnelInit

Next ==
    WordsNext \/ StreamNext \/ RouterNext \/ HealthNext \/ RetryNext
    \/ ResolveNext \/ CallsNext \/ ClientNext \/ ReduceNext \/ TunnelNext

Spec == Init /\ [][Next]_vars

(***************************************************************************)
(* The claims.                                                             *)
(***************************************************************************)
TerminalPositions(out) == {i \in 1..Len(out) : out[i].kind \in TerminalKinds}

\* the text of the content-delta events of out, concatenated in order
RECURSIVE ContentText(_)
ContentText(out) ==
    IF out = <<>> THEN <<>>
    ELSE (IF Head(out).kind = "content" THEN Head(out).text ELSE <<>>)
         \o ContentText(Tail(out))

\* C1: a stream of a stream_response that has ended holds exactly one
\* terminal event (finish or error), and at any time nothing but the
\* closing [DONE] follows a terminal event.
C1_ExactlyOneTerminal ==
    s_gen \in Translators =>
        /\ \A i \in TerminalPositions(s_out) :
              \A j \in (i + 1)..Len(s_out) : s_out[j].kind = "done"
        /\ s_pc = "closed" => Cardinality(TerminalPositions(s_out)) = 1

FailureCauses ==
    {"handler_error", "bad_status", "connect_failed", "error_chunk", "read_error"}

\* an error in the envelope {error: {message, code}}, framed or not
IsErrorEnvelope(e) == e.kind \in {"error", "raw_error"} /\ e.code # {}

\* C2: a stream that ended on a failure path holds an error frame with
\* message and code, and its last event is [DONE], after that error frame.
C2_FailureEndsWithDone ==
    (s_pc = "closed" /\ s_cause \in FailureCauses) =>
        /\ s_out # <<>>
        /\ s_out[Len(s_out)].kind = "done"
        /\ \E i \in 1..(Len(s_out) - 1) : IsErrorEnvelope(s_out[i])

\* C3: the first event of every stream Router.make_request hands out is the
\* role announcement, and no later event is one.
C3_RoleAnnouncedFirst ==
    (s_gen \in RouterGenerators /\ s_out # <<>>) =>
        /\ s_out[1].kind = "role"
        /\ \A i \in 2..Len(s_out) : s_out[i].kind # "role"

\* C4: once the idle ceiling has elapsed since the last data, the stream is
\* ended with the truncation notice, finish and [DONE] without a further
\* backend line: no stream is still waiting for a line more than one time
\* unit after the ceiling, and none is ended for idleness before it.
C4_IdleTimeoutFires ==
    s_gen = "client" =>
        /\ s_pc = "streaming" => s_now - s_lastData <= MaxIdleTime + 1
        /\ s_cause = "idle_timeout" =>
              /\ s_now >= MaxIdleTime
              /\ Len(s_out) >= 3
              /\ s_out[Len(s_out) - 2] = ContentEv(Notice, s_now)
              /\ s_out[Len(s_out) - 1].kind = "finish"
              /\ s_out[Len(s_out)].kind = "done"

\* the time of the last keepalive event, 0 if there is none
RECURSIVE LastKeepalive(_)
LastKeepalive(out) ==
    IF out = <<>> THEN 0
    ELSE IF out[Len(out)].kind = "keepalive" THEN out[Len(out)].t
    ELSE LastKeepalive(SubSeq(out, 1, Len(out) - 1))

Max(a, b) == IF a >= b THEN a ELSE b

\* C5: while the stream is not terminal, a keepalive is emitted whenever no
\* backend data has arrived for a keepalive interval, also when no line
\* arrives: no stream waits for a line with neither data nor a keepalive
\* for more than one time unit beyond the interval.
C5_KeepaliveWhileSilent ==
    (s_gen \in Translators /\ s_pc = "streaming") =>
        s_now - Max(s_lastData, LastKeepalive(s_out)) <= KeepaliveInterval + 1

\* C6: the content-delta texts, concatenated, are the texts of the
\* well-formed chunks received before the terminal event, in order.
C6_ContentPreserved ==
    s_gen \in Translators => ContentText(s_out) = s_sent

\* C7: the fragments of the word subdivision of a chunk text, concatenated
\* in order, are the text, and no fragment is empty.
C7_SubdivisionPreservesText ==
    w_pc = "done" =>
        /\ Concat(w_out) = w_in
        /\ \A i \in 1..Len(w_out) : w_out[i] # <<>>

C7_Witness ==
    /\ w_pc = "done"
    /\ Len(w_in) = MaxLen
    /\ Len(w_out) >= 3
    /\ \E i \in 1..Len(w_in) : IsSpace(w_in[i])

\* the codes a result carries, at its top or inside its error
CodesOf(result) == result.code \cup UNION {e.code : e \in result.error}

PrimaryAnsweredClientError ==
    /\ r_answers # <<>>
    /\ r_calls # <<>>
    /\ r_calls[1].role = "primary"
    /\ r_answers[1] \in {Http(st) : st \in ClientErrorStatus}

\* C8: after the primary backend answered 401, 402, 404 or 429, the primary
\* call is the only dispatch of the request, and what make_request returns
\* for a non-streaming call is the primary backend's error, code and
\* message as the adapter classified them.
C8_ClientErrorNoFallback ==
    PrimaryAnsweredClientError =>
        /\ Len(r_calls) = 1
        /\ r_pc = "done"
        /\ r_result.kind = "return"
        /\ r_result.provider = r_primary
        /\ ~r_result.fallback
        /\ ~r_calls[1].stream =>
              /\ r_result.result = AdapterResult(r_primary, r_answers[1])
              /\ CodesOf(r_result.result) = r_answers[1].status

TrulyHealthy(cfg, p) ==
    CASE p = "ollama" -> cfg.ollamaUp
      [] p = "openrouter" -> cfg.openrouter
      [] OTHER -> FALSE

C8_Witness ==
    /\ PrimaryAnsweredClientError
    /\ r_pc = "done"
    /\ r_primary = "openrouter"
    /\ ~r_req.stream
    /\ r_answers[1] = Http(401)
    /\ r_cfg.fallback_enabled
    /\ TrulyHealthy(r_cfg, "ollama")

FallbackCalls == {i \in 1..Len(r_calls) : r_calls[i].role = "fallback"}

\* C9: when the primary call ended unreachable and another backend is
\* healthy, the request has made exactly one fallback dispatch by the time
\* make_request is done.
C9_UnreachableOneFallback ==
    ( /\ r_pc = "done"
      /\ r_calls # <<>> /\ r_calls[1].role = "primary" /\ ~r_calls[1].stream
      /\ r_answers # <<>> /\ r_answers[1] = NoResponse("unreachable")
      /\ r_cfg.fallback_enabled
      /\ \E q \in Providers \ {r_primary} : TrulyHealthy(r_cfg, q) )
    => Cardinality(FallbackCalls) = 1

\* the texts of the error make_request surfaces
SurfacedTexts ==
    IF r_result.kind = "raise" THEN {r_result.message[i] : i \in 1..Len(r_result.message)}
    ELSE IF r_result.kind = "return" THEN {e.message : e \in r_result.result.error}
    ELSE {}

\* the cause of a failed fallback: its exception, or the error its backend
\* answered with
FallbackCause ==
    r_ferr \cup
    (IF r_result.kind = "return" /\ r_result.fallback
     THEN {e.message : e \in r_result.result.error} ELSE {})

\* C10: when the primary and the fallback both failed, the error that
\* make_request surfaces carries the primary failure and the fallback
\* failure.
C10_BothCausesSurfaced ==
    (r_pc = "done" /\ r_perr # {} /\ FallbackCause # {}) =>
        /\ r_perr \subseteq SurfacedTexts
        /\ FallbackCause \subseteq SurfacedTexts

\* the first POST of the call was answered with a 4xx status
ClientErrorAnswers == {Http(st) : st \in {400, 404, 429}}

FirstPostClientError == q_posts # <<>> /\ q_posts[1] \in ClientErrorAnswers

\* C11: once the backend has answered the POST of a call with a 4xx status,
\* the call is over: it has made exactly one POST, has slept for no backoff,
\* and what it returns is the error carrying that status.
C11_ClientErrorOneAttempt ==
    FirstPostClientError =>
        /\ Len(q_posts) = 1
        /\ q_sleeps = <<>>
        /\ q_pc = "done"
        /\ q_result.status = "error"
        /\ CodesOf(q_result) = q_posts[1].status

\* timeout, HTTP 5xx, connection refused during the POST
TransientOutcomes == {NoResponse("timeout"), NoResponse("unreachable"), Http(500)}

AllPostsTransient == \A i \in 1..Len(q_posts) : q_posts[i] \in TransientOutcomes

\* C12: a call never makes more than max_retries POSTs, and a call whose
\* every POST ended in a transient failure (timeout, 5xx, connection
\* refused) goes on to the next attempt after each failure: it ends only
\* after exactly max_retries POSTs, and ends in an error.
C12_TransientExhaustsRetries ==
    /\ Len(q_posts) <= q_max
    /\ (q_posts # <<>> /\ AllPostsTransient) =>
          /\ (Len(q_posts) < q_max => q_pc = "loop")
          /\ (q_pc = "done" => Len(q_posts) = q_max /\ q_result.status # "success")

\* C13: when the connectivity probe fails, the call is over with the error
\* of code 503, and it has made no POST and slept for no backoff, whatever
\* max_retries is; the handler without a probe, whose first POST finds no
\* connection, ends with the error of code 503 after that one POST and no
\* sleep.
C13_ProbeFailureShortCircuits ==
    /\ q_probe = "failed" =>
          /\ q_pc = "done"
          /\ q_result = ErrorDict("Cannot connect to provider API", 503)
          /\ q_posts = <<>>
          /\ q_sleeps = <<>>
    /\ (q_h = "legacy" /\ q_posts # <<>> /\ q_posts[1] = NoResponse("unreachable")) =>
          /\ q_pc = "done"
          /\ CodesOf(q_result) = {503}
          /\ Len(q_posts) = 1
          /\ q_sleeps = <<>>

C13_Witness ==
    /\ q_probe = "failed"
    /\ q_pc = "done"
    /\ q_max = DefaultMaxRetries


\* C14: a call of _is_provider_healthy less than 30 seconds after the check
\* of that backend returns what the check returned, reads nothing of the
\* client, and leaves the backend's record as the check left it; so it is
\* when the check found the backend unreachable.
C14_CheckReusedWithinTTL ==
    \A p \in Providers : \A e \in r_seen[p] :
        (~e.last.fresh /\ e.last.t - e.check.t < HealthTTL) =>
            /\ e.last.ok = e.check.ok
            /\ ~e.last.probe
            /\ e.last.record = e.check.record

\* the check found ollama without models, a call follows within the window
\* when the client holds models again
C14_Witness ==
    /\ r_cfg.ollama /\ r_cfg.ollamaUp
    /\ \E e \in r_seen["ollama"] :
          /\ ~e.last.fresh
          /\ e.last.t > e.check.t
          /\ e.last.t - e.check.t < HealthTTL
          /\ ~e.check.ok
          /\ e.check.probe


\* what _is_provider_healthy answers for the backend now
AnswerNow(p) == IsProviderHealthy(r_cfg, r_health, p, r_clock)

\* C15: OpenRouter enabled without an API key has no client: in every state
\* _is_provider_healthy reports it unhealthy without reading anything of a
\* client, it is not the backend make_request resolved to, and no primary or
\* fallback call went to it.
C15_NoCredentialNeverUsed ==
    ~r_cfg.openrouter =>
        /\ ~AnswerNow("openrouter").ok
        /\ ~AnswerNow("openrouter").probe
        /\ r_primary # "openrouter"
        /\ \A i \in 1..Len(r_calls) : r_calls[i].provider # "openrouter"

\* the alias table names the requested model for openrouter, the primary
\* raised and the fallback loop has run
C15_Witness ==
    /\ ~r_cfg.openrouter /\ r_cfg.mapR /\ r_cfg.fallback_enabled
    /\ r_req.model = "gpt-4"
    /\ r_pc = "done"
    /\ r_primary = "ollama"
    /\ r_perr # {}

\* C16: the backend determine_provider_and_model returns is one that
\* _is_provider_healthy reports healthy in that resolution; a backend whose
\* alias table holds the name but which is unhealthy is not returned.
C16_ResolvedBackendHealthy ==
    [][ (r_pc = "idle" /\ r_pc' # "idle" /\ r_primary' # "") =>
            IsProviderHealthy(r_cfg, r_health', r_primary', r_clock).ok ]_vars

\* the alias of ollama matched while ollama was unhealthy, and the request
\* was resolved to openrouter
C16_Witness ==
    /\ r_pc = "await_primary"
    /\ r_cfg.mapO /\ r_req.model = "gpt-4"
    /\ r_cfg.ollama /\ ~r_cfg.ollamaUp
    /\ ~r_health["ollama"].available
    /\ r_primary = "openrouter"


\* some backend is healthy when the resolution starts
SomeHealthy == \E p \in Providers : AnswerNow(p).ok

\* C17: a resolution that starts when no backend is healthy fails with "No
\* healthy providers available" and returns no backend; one that starts
\* when some backend is healthy returns a backend that is healthy.
C17_HealthyBackendOrError ==
    [][ (r_pc = "idle" /\ r_pc' # "idle") =>
            IF SomeHealthy
            THEN /\ r_primary' # ""
                 /\ IsProviderHealthy(r_cfg, r_health', r_primary', r_clock).ok
            ELSE /\ r_primary' = ""
                 /\ r_perr' = {"No healthy providers available"} ]_vars


\* the alias table maps the requested name to an id the catalog holds
AliasTargetInCatalog ==
    /\ m_pc = "done"
    /\ \E id \in m_in.target : id \in Ids(m_in.catalog)

\* C18: when the alias table maps the requested name to an id that the
\* catalog holds verbatim, get_model_name returns exactly that id, whatever
\* other entries of the catalog match by normalization or by prefix.
C18_ExactAliasWins == AliasTargetInCatalog => m_out = m_in.target

\* the catalog holds the mapped id after an entry that normalizes to it,
\* and the requested name itself matches both by normalization
C18_Witness ==
    /\ AliasTargetInCatalog
    /\ m_in.requested = <<"A">>
    /\ m_in.target = {<<"a">>}
    /\ m_in.catalog = << <<"a", ":latest">>, <<"a">> >>


\* the chunks' messages one after the other
RECURSIVE Flatten(_)
Flatten(chunks) ==
    IF chunks = <<>> THEN <<>> ELSE Head(chunks) \o Flatten(Tail(chunks))

\* a message list without the later copies of a message
RECURSIVE KeepFirst(_)
KeepFirst(msgs) ==
    IF msgs = <<>> THEN <<>>
    ELSE LET front == KeepFirst(SubSeq(msgs, 1, Len(msgs) - 1))
             m == msgs[Len(msgs)]
         IN  IF \E i \in 1..Len(front) : front[i] = m THEN front
             ELSE Append(front, m)

\* C19: the chunks of a message list, put one after the other without the
\* repeated copies of the system message and of the overlap, hold every
\* message of the list once: the system messages in their order and the
\* other messages in their order, also for a message above the chunk limit
\* and for a list with more than one system message.
C19_ChunksReproduceMessages ==
    c_pc # "input" =>
        LET slices == KeepFirst(Flatten(c_chunks))
        IN  /\ SelectRole(slices, TRUE) = SelectRole(c_msgs, TRUE)
            /\ SelectRole(slices, FALSE) = SelectRole(c_msgs, FALSE)

SumUsages ==
    LET Sum[i \in 0..Len(c_usages)] ==
            IF i = 0 THEN NoUsage ELSE AddUsage(Sum[i - 1], c_usages[i])
    IN  Sum[Len(c_usages)]

\* C20: when a request was processed as more than one chunk and every chunk
\* was answered, the usage of the returned response is the sum of the
\* usages the chunk responses reported: prompt, completion and total.
C20_UsageSummedOverChunks ==
    ( /\ c_pc = "done"
      /\ Len(c_chunks) > 1
      /\ ~Direct(c_h, c_msgs, c_chunks)
      /\ Len(c_usages) = Len(c_chunks) ) =>
        c_result = Completed(SumUsages)


\* C29: the delay slept before the n-th retry of a call is min(2^(n-1), 8)
\* seconds: 1 before the first retry, doubled for each further one, 8 at
\* most.
C29_BackoffDoublesFromOne ==
    \A n \in 1..Len(q_sleeps) : q_sleeps[n] = Min(Pow2(n - 1), BackoffCap)


\* the texts of the message the client receives
ClientTexts ==
    LET m == ChatCompletions(r_result).message IN {m[i] : i \in 1..Len(m)}

\* C23: when make_request ends by raising, the client receives status 500,
\* and the message it receives holds nothing of the text of the exception
\* behind it: not the primary error, not the text make_request raised with.
C23_GenericInternalError ==
    (r_pc = "done" /\ r_result.kind = "raise") =>
        /\ ChatCompletions(r_result).status = 500
        /\ ClientTexts \cap r_perr = {}
        /\ "All providers failed. Primary error: " \notin ClientTexts

\* the first entry of the priority list among ps; "" if none
FirstInPriority(priority, ps) ==
    LET hits == {i \in 1..Len(priority) : priority[i] \in ps}
    IN  IF hits = {} THEN ""
        ELSE priority[CHOOSE i \in hits : \A j \in hits : i <= j]

\* C24: a fallback dispatch goes to a backend other than the one the primary
\* attempt failed at: to the first healthy backend of the priority list
\* that is not that backend.
C24_FallbackToAnotherBackend ==
    \A i \in FallbackCalls :
        /\ r_calls[i].provider # r_tried
        /\ r_calls[i].provider =
              FirstInPriority(r_cfg.priority,
                  {p \in Providers \ {r_tried} : TrulyHealthy(r_cfg, p)})

\* C25: once determine_provider_and_model has returned a backend inside
\* make_request, the first dispatch of the request is a primary call to
\* that backend; make_request does not end without any backend call.
C25_DecisionIsDispatched ==
    (r_pc = "done" /\ r_primary # "") =>
        /\ r_calls # <<>>
        /\ r_calls[1] = Call(r_primary, "primary", r_req.stream)

\* C26: when the requested name is in the alias table of ollama and of
\* openrouter and both are healthy, the request is resolved to the one of
\* them that comes first in provider_priority.
C26_AliasInPriorityOrder ==
    ( /\ r_pc # "idle"
      /\ r_req.model = "gpt-4" /\ r_cfg.mapO /\ r_cfg.mapR
      /\ TrulyHealthy(r_cfg, "ollama") /\ TrulyHealthy(r_cfg, "openrouter") ) =>
        r_primary = FirstInPriority(r_cfg.priority, {"ollama", "openrouter"})


\* the catalog entries whose normalized name is the normalized requested one
NormalizedExact ==
    {id \in Ids(m_in.catalog) :
        NormalizeModelName(id) = NormalizeModelName(m_in.requested)}

\* the catalog entries the requested name is only a proper prefix of
ProperPrefixed ==
    {id \in Ids(m_in.catalog) :
        /\ StartsWith(NormalizeModelName(id), NormalizeModelName(m_in.requested))
        /\ NormalizeModelName(id) # NormalizeModelName(m_in.requested)}

\* C27: with no alias for the requested name, a catalog that holds an entry
\* equal to it after normalization and an entry it is only a proper prefix
\* of resolves to the normalized-equal entry, in whatever order the catalog
\* lists the two.
C27_NormalizedExactBeforePrefix ==
    ( /\ m_pc = "done"
      /\ m_in.target = {}
      /\ NormalizedExact # {} /\ ProperPrefixed # {} ) =>
        m_out \subseteq NormalizedExact /\ m_out # {}


\* whether the Router holds a client for the backend
HasClient(cfg, p) ==
    CASE p = "ollama" -> cfg.ollama
      [] p = "openrouter" -> cfg.openrouter
      [] p = "llamacpp" -> cfg.llamacpp

NewKinds == {s_out'[i].kind : i \in (Len(s_out) + 1)..Len(s_out')}

\* C30: in a stream_response that is not past its idle ceiling, an
\* undecodable line leaves the stream open and yields no event but a due
\* keepalive; whatever undecodable lines came before, a well-formed chunk
\* with text yields content and a chunk with the done signal yields the
\* finish chunk.
C30_MalformedLineSkipped ==
    [][ (s_gen \in Translators /\ s_now - s_lastData <= MaxIdleTime) =>
          /\ \A k \in {"junk", "junk_long"} :
                RecvLine(OtherLine(k)) =>
                    s_pc' = "streaming" /\ NewKinds \subseteq {"keepalive"}
          /\ \A line \in ChunkLines :
                RecvLine(line) =>
                    /\ line.text # <<>> => "content" \in NewKinds
                    /\ line.done => "finish" \in NewKinds ]_vars


\* the read timeout a request asks for: timeout_seconds when it does not
\* stream, that of the client as get_client makes it when it does
OwnTimeout(req) == IF req.stream THEN ClientReadTimeout ELSE req.timeout_seconds

Running(req) == req.pc \notin {"start", "done"}

\* C21: while two requests are in flight on one request handler, the read
\* timeout each one's POST was sent with is its own, whatever timeout the
\* other one has set on the shared client.
C21_TimeoutsIsolated ==
    \A i \in InFlight, j \in InFlight :
        (i # j /\ Running(k_reqs[i]) /\ Running(k_reqs[j])) =>
            k_reqs[i].applied \subseteq {OwnTimeout(k_reqs[i])}


\* max_tokens_per_chunk of the handler
ChunkLimit(h) == IF h = "base" THEN BaseChunkLimit ELSE LegacyChunkLimit

\* a chunk whose only non-system message is by itself over the limit
SingleOversized(h, chunk) ==
    LET other == SelectRole(chunk, FALSE)
    IN  Len(other) = 1 /\ other[1].tokens > ChunkLimit(h)

\* C31: every chunk the chunking function returns holds a message, and the
\* estimated tokens of all its messages, the system message and the overlap
\* put in front included, are at most max_tokens_per_chunk, unless its only
\* non-system message is by itself over the limit.
C31_ChunksWithinLimit ==
    c_pc \notin {"off", "input"} =>
        \A i \in 1..Len(c_chunks) :
            /\ c_chunks[i] # <<>>
            /\ SumTokens(c_chunks[i]) <= ChunkLimit(c_h)
               \/ SingleOversized(c_h, c_chunks[i])


\* the last n messages of a list, or all of it when it is shorter
LastN(msgs, n) ==
    SubSeq(msgs, IF Len(msgs) > n THEN Len(msgs) - n + 1 ELSE 1, Len(msgs))

\* what a chunk opened after an overflow is to start with
CarriedForward(msgs, closed) ==
    SetToSeq(LastSystem(msgs)) \o LastN(SelectRole(closed, FALSE), ChunkOverlap)

\* C32: a chunk that follows another one starts with the system message of
\* the conversation, if it has one, then the last chunk_overlap non-system
\* messages of the chunk before it, and holds the overflowing message after
\* them.
C32_NewChunkCarriesOverlap ==
    c_pc \notin {"off", "input"} =>
        \A k \in 1..(Len(c_chunks) - 1) :
            LET start == CarriedForward(c_msgs, c_chunks[k])
            IN  /\ Len(c_chunks[k + 1]) > Len(start)
                /\ SubSeq(c_chunks[k + 1], 1, Len(start)) = start

\* C33: within one chunked request the chunks go out in order, the call for
\* chunk N+1 is not issued before the answer for chunk N is known, and at
\* most one chunk call of the request is in flight, whatever a second
\* request in the same loop is doing.
C33_ChunkCallsSequential ==
    /\ Len(c_sent) = Len(c_got) + (IF c_pc = "waiting" THEN 1 ELSE 0)
    /\ \A k \in 1..Len(c_sent) : c_sent[k].chunk = k

\* both requests have a chunk call in flight, each past its first chunk
C33_Witness ==
    /\ c_pc = "waiting" /\ c_i >= 2 /\ Len(c_got) = c_i - 1
    /\ c_peer.pc = "waiting" /\ c_peer.i = 2

\* C34: the request of the first chunk carries no earlier reply, and the
\* request of a chunk that follows an answered chunk carries exactly one
\* assistant message, holding the reply text of that chunk.
C34_NextChunkCarriesReply ==
    \A k \in 1..Len(c_sent) :
        /\ k = 1 => c_sent[k].context = <<>>
        /\ (k > 1 /\ c_got[k - 1].ok) => c_sent[k].context = <<c_got[k - 1].reply>>

\* C35: a chunk that is not the last one is sent with streaming disabled, and
\* the last one is sent with streaming enabled exactly when the client asked
\* for a streamed answer.
C35_OnlyFinalChunkStreams ==
    \A k \in 1..Len(c_sent) :
        c_sent[k].stream = (ChunkedStream /\ c_sent[k].chunk = Len(c_chunks))

\* the codes of "cannot connect" and "model not found"
FatalChunkCodes == {503, 404}

\* C36: when a chunk is answered with a connection error or a model-not-found
\* error, no later chunk is sent and the result is that error, as it came.
C36_ChunkErrorStopsAndReturns ==
    \A k \in 1..Len(c_got) :
        (~c_got[k].ok /\ c_got[k].code \in FatalChunkCodes) =>
            /\ Len(c_sent) = k
            /\ c_pc = "done"
            /\ c_result = ReturnedError(c_got[k].code)

\* the original messages among those sent
Originals(sent) == SelectSeq(sent, LAMBDA m : m.id # 0)

\* one list is the tail of the other
IsSuffix(tail, msgs) ==
    /\ Len(tail) <= Len(msgs)
    /\ tail = SubSeq(msgs, Len(msgs) - Len(tail) + 1, Len(msgs))

\* C37: the reduced-context path sends every system message and the longest
\* run of the most recent other messages, in their order, that fits, and the
\* estimate of what it sends, notice included, is within the safe limit
\* min(max_streaming_tokens, 12000).
C37_ReducedContextWithinLimit ==
    d_pc = "sent" =>
        LET others  == SelectRole(d_msgs, FALSE)
            kept    == SelectRole(Originals(d_sent), FALSE)
            dropped == Len(others) - Len(kept)
        IN  /\ SelectRole(Originals(d_sent), TRUE) = SelectRole(d_msgs, TRUE)
            /\ IsSuffix(kept, others)
            /\ dropped > 0 =>
                   SumTokens(d_sent) + others[dropped].tokens > MaxSafeTokens
            /\ SumTokens(d_sent) <= MaxSafeTokens

\* C38: the notice is sent exactly when an original message was dropped: then
\* one notice stands right after the system messages sent, ahead of the
\* other messages; when every message is kept there is none.
C38_NoticeIffDropped ==
    d_pc = "sent" =>
        LET notices == SelectSeq(d_sent, LAMBDA m : m.id = 0)
            nsys    == Len(SelectRole(Originals(d_sent), TRUE))
        IN  IF Len(Originals(d_sent)) < Len(d_msgs)
            THEN /\ Len(notices) = 1
                 /\ d_sent[nsys + 1] = ContextNote(d_h)
                 /\ \A i \in 1..nsys : d_sent[i].role = "system"
                 /\ \A i \in (nsys + 2)..Len(d_sent) : d_sent[i].role # "system"
            ELSE d_sent = d_msgs

\* a notice between a system message and a kept message, with one dropped
C38_Witness ==
    /\ d_pc = "sent"
    /\ Len(d_sent) = 3 /\ Len(d_msgs) = 3
    /\ d_sent[1].role = "system" /\ d_sent[1].id # 0
    /\ d_sent[2] = ContextNote(d_h)
    /\ d_sent[3] = d_msgs[3] /\ d_sent[3].role = "user"

\* C39: with enable_fallback set to false in the routing configuration,
\* make_request makes no fallback call, and a request whose primary backend
\* failed ends with the primary error.
C39_DisabledFallbackNeverDispatches ==
    ~r_cfg.enable_fallback =>
        /\ FallbackCalls = {}
        /\ (r_pc = "done" /\ r_perr # {}) => r_result = AllProvidersFailed(r_perr)

\* C40: whatever the interleaving of the start and stop calls, at most one
\* tunnel process runs, no start gets past the test of tunnel_process while
\* another start waits for its URL, and a process that runs is the recorded
\* one or the one a start still waits for.
C40_OneTunnelProcess ==
    t_pc # <<>> =>
        /\ Cardinality(t_alive) <= 1
        /\ Cardinality({i \in Starters : t_pc[i] = "waiting"}) <= 1
        /\ \A p \in t_alive : p = t_process \/ t_pc[p] = "waiting"

====
